---- MODULE Spec2Model ----
(***************************************************************************)
(* css-complexity-analyzer: the analysis pipeline of packages/cli/src/core *)
(* (selector analyzer, stylesheet parser, metrics aggregator, rule engine, *)
(* scoring model, threshold check) as a state machine.                     *)
(*                                                                         *)
(* Numbers.  JavaScript numbers that stay integral are TLA+ integers.      *)
(* Averages rounded to two decimals are integers counted in hundredths     *)
(* (the unit is stated at each definition).  Category scores are exact     *)
(* rationals <<num, den>>.                                                 *)
(* Optional fields (x?: T) are None (absent) or Some(v).                   *)
(* Strings that the code takes apart (declaration values) are sequences    *)
(* of one-character strings; strings it only compares are TLA+ strings.    *)
(***************************************************************************)
EXTENDS Integers, Sequences, FiniteSets, TLC

VARIABLES
    inputs,        \* analyze(): the AnalysisInput[] not yet visited by the loop
    config,        \* the user's AnalyzerConfig
    parseResults,  \* analyze(): const parseResults: ParseResult[]
    report,        \* None, or Some(the Report returned by generateReport)
    verdict,       \* None, or Some(what checkThresholds returned)
    call           \* None, or Some([fn, args, ret]) of a direct call of a pure function

vars == <<inputs, config, parseResults, report, verdict, call>>

----------------------------------------------------------------------------
(* Generic helpers *)

None == <<>>
Some(x) == <<x>>
\* x ?? d
OrElse(x, d) == IF x = None THEN d ELSE x[1]

Min2(a, b) == IF a <= b THEN a ELSE b
Max2(a, b) == IF a >= b THEN a ELSE b

RECURSIVE SumSeq(_)
SumSeq(s) ==
    IF Len(s) = 0 THEN 0
    ELSE IF Len(s) = 1 THEN s[1]
    ELSE LET h == Len(s) \div 2
         IN  SumSeq(SubSeq(s, 1, h)) + SumSeq(SubSeq(s, h + 1, Len(s)))

RECURSIVE Flatten(_)
Flatten(ss) ==
    IF Len(ss) = 0 THEN <<>>
    ELSE IF Len(ss) = 1 THEN ss[1]
    ELSE LET h == Len(ss) \div 2
         IN  Flatten(SubSeq(ss, 1, h)) \o Flatten(SubSeq(ss, h + 1, Len(ss)))

Range(s) == {s[i] : i \in 1..Len(s)}

RECURSIVE Gcd(_, _)
Gcd(a, b) == IF b = 0 THEN a ELSE Gcd(b, a % b)

\* Exact rationals <<n, d>> with d > 0, kept in lowest terms.
Rat(n, d) ==
    LET g == Gcd(IF n < 0 THEN -n ELSE n, d)
    IN  IF g = 0 THEN <<0, 1>> ELSE <<n \div g, d \div g>>
RInt(n) == <<n, 1>>
RAdd(a, b) == Rat(a[1] * b[2] + b[1] * a[2], a[2] * b[2])
RMulInt(a, k) == Rat(a[1] * k, a[2])
RDivInt(a, k) == Rat(a[1], a[2] * k)
RLe(a, b) == a[1] * b[2] <= b[1] * a[2]
RLt(a, b) == a[1] * b[2] < b[1] * a[2]
RMin(a, b) == IF RLe(a, b) THEN a ELSE b
RMax(a, b) == IF RLe(a, b) THEN b ELSE a
\* Math.round of a rational: the nearest integer, halves towards +infinity
RRound(a) == (2 * a[1] + a[2]) \div (2 * a[2])
\* Math.round(n / d) for integers n >= 0, d > 0
RoundDiv(n, d) == (2 * n + d) \div (2 * d)

RECURSIVE RSum(_)
RSum(s) ==
    IF Len(s) = 0 THEN RInt(0)
    ELSE IF Len(s) = 1 THEN s[1]
    ELSE LET h == Len(s) \div 2
         IN  RAdd(RSum(SubSeq(s, 1, h)), RSum(SubSeq(s, h + 1, Len(s))))

----------------------------------------------------------------------------
(* Numbers.  The averages are computed in JavaScript Numbers (IEEE 754     *)
(* doubles): every +, / and * rounds its exact result to 53 significant    *)
(* bits, ties to even.  A double x >= 0 is represented exactly, as the     *)
(* integer x * 2^FracBits written in limbs of LimbBits bits, least limb    *)
(* first.  The representation is exact for the values that occur here:     *)
(* zero and doubles between 2^-22 and 2^30.                                *)

LimbBits == 15
Base == 2 ^ LimbBits
Limbs == 7
FracLimbs == Limbs - 2
FracBits == FracLimbs * LimbBits
MantissaBits == 53

BZero == [i \in 1..Limbs |-> 0]
\* the integer k, 0 <= k < 2^30
BInt(k) ==
    [i \in 1..Limbs |-> IF i = FracLimbs + 1 THEN k % Base
                        ELSE IF i = FracLimbs + 2 THEN k \div Base ELSE 0]
\* 2^s units
BPow2(s) ==
    [i \in 1..Limbs |-> IF i = s \div LimbBits + 1 THEN 2 ^ (s % LimbBits) ELSE 0]
\* exact sum
BAdd(x, y) ==
    LET c[i \in 0..Limbs] ==
            IF i = 0 THEN 0 ELSE (x[i] + y[i] + c[i - 1]) \div Base
        carry == <<>> \o [i \in 1..Limbs |-> c[i - 1]]
    IN  <<>> \o [i \in 1..Limbs |-> (x[i] + y[i] + carry[i]) % Base]
\* exact product with an integer 0 <= m < 2^15
BMul(x, m) ==
    LET c[i \in 0..Limbs] ==
            IF i = 0 THEN 0 ELSE (x[i] * m + c[i - 1]) \div Base
        carry == <<>> \o [i \in 1..Limbs |-> c[i - 1]]
    IN  <<>> \o [i \in 1..Limbs |-> (x[i] * m + carry[i]) % Base]
\* quotient by an integer 0 < d < 2^15, rounded down, and whether a
\* remainder is left
BDiv(x, d) ==
    LET r[i \in 1..(Limbs + 1)] ==
            IF i = Limbs + 1 THEN 0 ELSE (r[i + 1] * Base + x[i]) % d
        rem == <<>> \o [i \in 1..(Limbs + 1) |-> r[i]]
    IN  [quotient |-> <<>> \o [i \in 1..Limbs |-> (rem[i + 1] * Base + x[i]) \div d],
         inexact |-> rem[1] # 0]
\* -1, 0 or 1 as x is less than, equal to or greater than y
BCompare(x, y) ==
    IF x = y THEN 0
    ELSE LET top == CHOOSE i \in 1..Limbs :
                        x[i] # y[i] /\ \A j \in (i + 1)..Limbs : x[j] = y[j]
         IN  IF x[top] < y[top] THEN -1 ELSE 1
\* number of significant bits
BitLength(x) ==
    IF x = BZero THEN 0
    ELSE LET top == CHOOSE i \in 1..Limbs :
                        x[i] # 0 /\ \A j \in (i + 1)..Limbs : x[j] = 0
             bits == CHOOSE b \in 1..LimbBits :
                        2 ^ (b - 1) <= x[top] /\ x[top] < 2 ^ b
         IN  LimbBits * (top - 1) + bits
\* the double nearest to x (+ a positive amount below one unit when
\* inexact), ties to even
RoundToDouble(x, inexact) ==
    LET len == BitLength(x)
    IN  IF len <= MantissaBits THEN x
        ELSE LET s == len - MantissaBits
                 a == s \div LimbBits
                 p == 2 ^ (s % LimbBits)
                 low == [i \in 1..Limbs |-> IF i <= a THEN x[i]
                                            ELSE IF i = a + 1 THEN x[i] % p
                                            ELSE 0]
                 truncated == [i \in 1..Limbs |-> x[i] - low[i]]
                 odd == (x[a + 1] \div p) % 2 = 1
                 cmp == BCompare(low, BPow2(s - 1))
             IN  IF cmp > 0 \/ (cmp = 0 /\ (inexact \/ odd))
                 THEN BAdd(truncated, BPow2(s))
                 ELSE truncated
\* x + y, x / d and x * m of JavaScript
FAdd(x, y) == RoundToDouble(BAdd(x, y), FALSE)
FDiv(x, d) == LET q == BDiv(x, d) IN RoundToDouble(q.quotient, q.inexact)
FMul(x, m) == RoundToDouble(BMul(x, m), FALSE)
\* Math.round(x): the nearest integer, halves towards +infinity
MathRound(x) ==
    LET y == BAdd(x, BPow2(FracBits - 1))
    IN  y[FracLimbs + 1] + Base * y[FracLimbs + 2]
\* the Number k / 100, as Math.round(...) / 100 returns it
FromHundredths(k) == FDiv(BInt(k), 100)
\* numbers.reduce((sum, n) => sum + n, 0)
RECURSIVE FSum(_)
FSum(numbers) ==
    IF Len(numbers) = 0 THEN BZero
    ELSE FAdd(FSum(SubSeq(numbers, 1, Len(numbers) - 1)), numbers[Len(numbers)])

----------------------------------------------------------------------------
(* Selector Analyzer (parser.ts).  A selector is the node list that        *)
(* postcss-selector-parser yields for one comma-separated branch: nodes of *)
(* type id, class, attribute, pseudo, tag, universal, combinator.  A       *)
(* pseudo node carries the selectors of its argument list in args.  A     *)
(* selector string is [raw, sel, throws, chars]: sel is the node list the  *)
(* parser yields, throws says that processSync raises on the string, and   *)
(* chars are the characters the fallbacks then read (left empty where the  *)
(* parser does not raise).                                                 *)

Node(t, v) == [type |-> t, value |-> v, colons |-> 0, args |-> <<>>]
Pseudo(c, v, a) == [type |-> "pseudo", value |-> v, colons |-> c, args |-> a]

\* selectors.walk: every node of the selector, arguments of pseudos included
RECURSIVE Walk(_)
Walk(nodes) ==
    IF nodes = <<>> THEN <<>>
    ELSE LET n == Head(nodes)
         IN  <<n>> \o Flatten([i \in 1..Len(n.args) |-> Walk(n.args[i])])
                 \o Walk(Tail(nodes))

\* the characters the fallback regular expressions tell apart; \s and \w
\* are cut down to the characters the selector strings are made of
SelectorWhiteSpace == {" ", "\t", "\n", "\r"}
SelectorSeparators == SelectorWhiteSpace \cup {">", "+", "~"}
Letters ==
    {"a", "b", "c", "d", "e", "f", "g", "h", "i", "j", "k", "l", "m",
     "n", "o", "p", "q", "r", "s", "t", "u", "v", "w", "x", "y", "z",
     "A", "B", "C", "D", "E", "F", "G", "H", "I", "J", "K", "L", "M",
     "N", "O", "P", "Q", "R", "S", "T", "U", "V", "W", "X", "Y", "Z"}

\* selector.split(/[\s>+~]/).filter((s) => s.trim()).length: the pieces
\* between separators that are not empty, one per maximal run of other
\* characters
SplitLength(selector) ==
    Cardinality({i \in 1..Len(selector) :
        /\ selector[i] \notin SelectorSeparators
        /\ (i = 1 \/ selector[i - 1] \in SelectorSeparators)})

\* (selector.match(/<mark>[a-zA-Z_-][\w-]*/g) || []).length: the rest of a
\* match cannot hold the mark, so every mark before a name start is a match
MatchNames(selector, mark) ==
    Cardinality({i \in 1..(Len(selector) - 1) :
        /\ selector[i] = mark
        /\ selector[i + 1] \in Letters \cup {"_", "-"}})

\* (selector.match(/\[[^\]]+\]/g) || []).length, scanning from position i
RECURSIVE MatchAttributes(_, _)
MatchAttributes(selector, i) ==
    IF i > Len(selector) THEN 0
    ELSE LET closing == {j \in (i + 1)..Len(selector) : selector[j] = "]"}
             first == CHOOSE j \in closing : \A k \in closing : j <= k
         IN  IF selector[i] = "[" /\ closing # {} /\ first > i + 1
             THEN 1 + MatchAttributes(selector, first + 1)
             ELSE MatchAttributes(selector, i + 1)

\* (selector.match(/(?:^|[\s>+~])([a-zA-Z][\w-]*)/g) || []).length
MatchElements(selector) ==
    Cardinality({i \in 1..Len(selector) :
        /\ selector[i] \in Letters
        /\ (i = 1 \/ selector[i - 1] \in SelectorSeparators)})

calculateSelectorDepth(s) ==
    IF s.throws
    THEN SplitLength(s.chars)
    ELSE 1 + Len(SelectSeq(Walk(s.sel), LAMBDA n : n.type = "combinator"))

LegacyPseudoElements ==
    {"before", "after", "first-line", "first-letter", "selection", "placeholder"}

IsPseudoElement(n) == n.colons = 2 \/ n.value \in LegacyPseudoElements

specificityToScore(s) == s.ids * 100 + s.classes * 10 + s.elements

\* variant: the scalar scores are compared
compareSpecificity_ByScore(a, b) ==
    specificityToScore(a) - specificityToScore(b)

compareSpecificity(a, b) ==
    IF a.ids # b.ids THEN a.ids - b.ids
    ELSE IF a.classes # b.classes THEN a.classes - b.classes
    ELSE a.elements - b.elements

\* variant: :not, :is, :where and :has count as classes themselves
calculateSpecificity_CountsFunctional(s) ==
    LET w == Walk(s.sel)
    IN  IF s.throws
        THEN [ids |-> MatchNames(s.chars, "#"),
              classes |-> MatchNames(s.chars, ".") + MatchAttributes(s.chars, 1),
              elements |-> MatchElements(s.chars)]
        ELSE
        [ids |-> Len(SelectSeq(w, LAMBDA n : n.type = "id")),
         classes |->
             Len(SelectSeq(w, LAMBDA n : n.type \in {"class", "attribute"}))
             + Len(SelectSeq(w, LAMBDA n : n.type = "pseudo" /\ ~IsPseudoElement(n))),
         elements |->
             Len(SelectSeq(w, LAMBDA n : n.type = "pseudo" /\ IsPseudoElement(n)))
             + Len(SelectSeq(w, LAMBDA n : n.type = "tag" /\ n.value # "*"))]

calculateSpecificity(s) ==
    LET w == Walk(s.sel)
    IN  IF s.throws
        THEN [ids |-> MatchNames(s.chars, "#"),
              classes |-> MatchNames(s.chars, ".") + MatchAttributes(s.chars, 1),
              elements |-> MatchElements(s.chars)]
        ELSE
        [ids |-> Len(SelectSeq(w, LAMBDA n : n.type = "id")),
         classes |->
             Len(SelectSeq(w, LAMBDA n : n.type \in {"class", "attribute"}))
             + Len(SelectSeq(w, LAMBDA n : n.type = "pseudo" /\ ~IsPseudoElement(n)
                                   /\ n.value \notin {"not", "is", "where", "has"})),
         elements |->
             Len(SelectSeq(w, LAMBDA n : n.type = "pseudo" /\ IsPseudoElement(n)))
             + Len(SelectSeq(w, LAMBDA n : n.type = "tag" /\ n.value # "*"))]

parseSelector(s) ==
    LET w == Walk(s.sel)
        c == s.chars
    IN  [raw |-> s.raw,
         depth |-> calculateSelectorDepth(s),
         specificity |-> calculateSpecificity(s),
         hasId |->
             IF s.throws THEN MatchNames(c, "#") > 0
             ELSE \E i \in 1..Len(w) : w[i].type = "id",
         hasPseudoClass |->
             IF s.throws
             THEN \E i \in 1..Len(c) : c[i] = ":" /\ (i = Len(c) \/ c[i + 1] # ":")
             ELSE \E i \in 1..Len(w) :
                      w[i].type = "pseudo" /\ ~IsPseudoElement(w[i]),
         hasPseudoElement |->
             IF s.throws
             THEN \E i \in 1..(Len(c) - 1) : c[i] = ":" /\ c[i + 1] = ":"
             ELSE \E i \in 1..Len(w) :
                      w[i].type = "pseudo" /\ IsPseudoElement(w[i]),
         hasAttribute |->
             IF s.throws THEN MatchAttributes(c, 1) > 0
             ELSE \E i \in 1..Len(w) : w[i].type = "attribute"]

----------------------------------------------------------------------------
(* Stylesheet Parser (parser.ts, parseCSS).  A stylesheet is what          *)
(* postcss.parse yields: throws (the parser raised), or a list of          *)
(* top-level nodes, each a style rule or an at-rule holding style rules    *)
(* and further at-rules.  A source rule is [kind, selectors, decls, nodes, *)
(* line]: its own declarations, followed by the rules and at-rules nested  *)
(* in it; an at-rule is [kind, name, params, nodes], params being the      *)
(* characters after the name.                                              *)

SrcRule(line, selectors, decls) ==
    [kind |-> "rule", selectors |-> selectors, decls |-> decls, nodes |-> <<>>,
     line |-> line]
\* a style rule with rules nested in it
NestingRule(line, selectors, decls, nodes) ==
    [kind |-> "rule", selectors |-> selectors, decls |-> decls, nodes |-> nodes,
     line |-> line]
AtRule(name, params, nodes) ==
    [kind |-> "atrule", name |-> name, params |-> params, nodes |-> nodes]
Decl(p, v, imp) == [property |-> p, value |-> v, important |-> imp]

\* String.prototype.toLowerCase and trim, on sequences of characters
UpperCase == <<"A", "B", "C", "D", "E", "F", "G", "H", "I", "J", "K", "L", "M",
               "N", "O", "P", "Q", "R", "S", "T", "U", "V", "W", "X", "Y", "Z">>
LowerCase == <<"a", "b", "c", "d", "e", "f", "g", "h", "i", "j", "k", "l", "m",
               "n", "o", "p", "q", "r", "s", "t", "u", "v", "w", "x", "y", "z">>
ToLowerCase(v) ==
    [i \in 1..Len(v) |->
        IF \E u \in 1..26 : UpperCase[u] = v[i]
        THEN LowerCase[CHOOSE u \in 1..26 : UpperCase[u] = v[i]]
        ELSE v[i]]
WhiteSpace == {" ", "\t", "\n", "\r"}
RECURSIVE Trim(_)
Trim(v) ==
    IF v = <<>> THEN <<>>
    ELSE IF v[1] \in WhiteSpace THEN Trim(Tail(v))
    ELSE IF v[Len(v)] \in WhiteSpace THEN Trim(SubSeq(v, 1, Len(v) - 1))
    ELSE v

\* params.split(',')
RECURSIVE SplitAtCommas(_)
SplitAtCommas(v) ==
    IF \A i \in 1..Len(v) : v[i] # ","
    THEN <<v>>
    ELSE LET i == CHOOSE k \in 1..Len(v) :
                      v[k] = "," /\ \A j \in 1..(k - 1) : v[j] # ","
         IN  <<SubSeq(v, 1, i - 1)>> \o SplitAtCommas(SubSeq(v, i + 1, Len(v)))

\* params.split(',').map((n) => n.trim()).filter(Boolean)
LayerNames(params) ==
    LET parts == SplitAtCommas(params)
    IN  SelectSeq([i \in 1..Len(parts) |-> Trim(parts[i])], LAMBDA n : n # <<>>)

\* getLayerName: the params, trimmed, of the nearest enclosing @layer
\* at-rule that has params; ancestors run from the parent outwards
RECURSIVE getLayerName(_)
getLayerName(ancestors) ==
    IF ancestors = <<>> THEN None
    ELSE IF ancestors[1].kind = "atrule" /\ ancestors[1].name = "layer"
            /\ ancestors[1].params # <<>>
    THEN Some(Trim(ancestors[1].params))
    ELSE getLayerName(Tail(ancestors))

\* rule.walkDecls: every declaration inside the node, at any depth, in
\* source order
RECURSIVE WalkDecls(_)
WalkDecls(node) ==
    (IF node.kind = "rule" THEN node.decls ELSE <<>>)
        \o Flatten([i \in 1..Len(node.nodes) |-> WalkDecls(node.nodes[i])])

\* processRule: the ParsedRule pushed for one style rule (none when the
\* rule has no selector)
processRule(rule, ancestors, file) ==
    LET selectors ==
            [i \in 1..Len(rule.selectors) |->
                parseSelector(rule.selectors[i])]
    IN  IF Len(selectors) > 0
        THEN << [selectors |-> selectors,
                 declarations |-> WalkDecls(rule),
                 file |-> file,
                 line |-> rule.line,
                 layer |-> getLayerName(ancestors)] >>
        ELSE <<>>

\* root.walk: every style rule, in source order, with the at-rules around it
RECURSIVE WalkRules(_, _, _)
WalkRules(nodes, ancestors, file) ==
    Flatten([i \in 1..Len(nodes) |->
        (IF nodes[i].kind = "rule"
         THEN processRule(nodes[i], ancestors, file) ELSE <<>>)
            \o WalkRules(nodes[i].nodes, <<nodes[i]>> \o ancestors, file)])

\* root.walkAtRules('layer'): every at-rule named layer, in source order,
\* at any depth
RECURSIVE WalkLayerRules(_)
WalkLayerRules(nodes) ==
    Flatten([i \in 1..Len(nodes) |->
        (IF nodes[i].kind = "atrule" /\ nodes[i].name = "layer"
         THEN <<nodes[i]>> ELSE <<>>)
            \o WalkLayerRules(nodes[i].nodes)])

\* variant: layer names are compared without regard to case
Dedup_IgnoreCase(s) ==
    LET first == {i \in 1..Len(s) :
                     \A j \in 1..(i - 1) : ToLowerCase(s[j]) # ToLowerCase(s[i])}
    IN  [p \in 1..Cardinality(first) |->
            s[CHOOSE i \in first : Cardinality({j \in first : j <= i}) = p]]

\* layers.includes / layers.push over the names met, in order
Dedup(s) ==
    LET first == {i \in 1..Len(s) : \A j \in 1..(i - 1) : s[j] # s[i]}
    IN  [p \in 1..Cardinality(first) |->
            s[CHOOSE i \in first : Cardinality({j \in first : j <= i}) = p]]

parseCSS(css, filename) ==
    IF css.throws
    THEN [file |-> filename, rules |-> <<>>,
          errors |-> <<"Failed to parse CSS">>,
          layers |-> <<>>, usesLayers |-> FALSE]
    ELSE LET layerRules == WalkLayerRules(css.nodes)
         IN  [file |-> filename,
              rules |-> WalkRules(css.nodes, <<>>, filename),
              errors |-> <<>>,
              layers |-> Dedup(Flatten([i \in 1..Len(layerRules) |->
                                           LayerNames(Trim(layerRules[i].params))])),
              usesLayers |-> layerRules # <<>>]

\* variant: a file that cannot be read yields a result without an error
parseCSSFile_NoError(path, readable, content) ==
    IF readable
    THEN parseCSS(content, path)
    ELSE [file |-> path, rules |-> <<>>, errors |-> <<>>,
          layers |-> <<>>, usesLayers |-> FALSE]

\* parseCSSFile: readFile failed, or parseCSS of what was read
parseCSSFile(path, readable, content) ==
    IF readable
    THEN parseCSS(content, path)
    ELSE [file |-> path, rules |-> <<>>,
          errors |-> <<"Failed to read file">>,
          layers |-> <<>>, usesLayers |-> FALSE]

----------------------------------------------------------------------------
(* Metrics Aggregator (metrics.ts) *)

LAYOUT_PROPERTIES ==
    {"width", "height", "min-width", "min-height", "max-width", "max-height",
     "top", "left", "right", "bottom",
     "margin", "margin-top", "margin-right", "margin-bottom", "margin-left",
     "padding", "padding-top", "padding-right", "padding-bottom", "padding-left",
     "display", "position", "float", "clear",
     "flex", "flex-basis", "flex-grow", "flex-shrink", "flex-direction",
     "flex-wrap", "justify-content", "align-items", "align-self",
     "align-content", "order",
     "grid", "grid-template", "grid-template-columns", "grid-template-rows",
     "grid-template-areas", "grid-column", "grid-row", "grid-area", "grid-gap",
     "gap", "row-gap", "column-gap",
     "border", "border-width", "border-top-width", "border-right-width",
     "border-bottom-width", "border-left-width",
     "box-sizing", "overflow", "overflow-x", "overflow-y", "white-space",
     "word-wrap", "word-break", "text-overflow", "table-layout",
     "vertical-align", "line-height", "font-size", "writing-mode",
     "columns", "column-count", "column-width", "column-span",
     "break-before", "break-after", "break-inside"}

\* riskMultiplier is kept in tenths (15 is 1.5)
RISKY_COMBINATIONS ==
    << [properties |-> {"position", "top", "left"}, riskMultiplier |-> 15],
       [properties |-> {"position", "top", "right"}, riskMultiplier |-> 15],
       [properties |-> {"position", "bottom", "left"}, riskMultiplier |-> 15],
       [properties |-> {"position", "bottom", "right"}, riskMultiplier |-> 15],
       [properties |-> {"float", "width"}, riskMultiplier |-> 13],
       [properties |-> {"display", "position"}, riskMultiplier |-> 12] >>

\* the values the code compares with, and the characters it looks for
StrAbsolute == <<"a", "b", "s", "o", "l", "u", "t", "e">>
StrFixed == <<"f", "i", "x", "e", "d">>
\* decl.property.startsWith('margin'), for a property of LAYOUT_PROPERTIES
StartsWithMargin(p) ==
    p \in {"margin", "margin-top", "margin-right", "margin-bottom", "margin-left"}
Includes(v, ch) == \E i \in 1..Len(v) : v[i] = ch

ZeroSpecificity == [ids |-> 0, classes |-> 0, elements |-> 0]

\* numbers.reduce((sum, n) => sum + n, 0) as a Number.  With scale 100 the
\* numbers are integers, whose sums are exact in every order; with scale 1
\* they are hundredths k, standing for the Numbers k / 100, and are added
\* from left to right.
Total(numbers, scale) ==
    IF scale = 100 THEN BInt(SumSeq(numbers))
    ELSE FSum([i \in 1..Len(numbers) |-> FromHundredths(numbers[i])])

\* calculateAverageSpecificity.  The components of the result are in
\* hundredths: scale is 100 for integer components (per file) and 1 for
\* components that are already hundredths (the global mean of file means).
calculateAverageSpecificity(specificities, scale) ==
    IF Len(specificities) = 0 THEN ZeroSpecificity
    ELSE LET n == Len(specificities)
             sumIds == Total([i \in 1..n |-> specificities[i].ids], scale)
             sumClasses == Total([i \in 1..n |-> specificities[i].classes], scale)
             sumElements == Total([i \in 1..n |-> specificities[i].elements], scale)
         IN  [ids |-> MathRound(FMul(FDiv(sumIds, n), 100)),
              classes |-> MathRound(FMul(FDiv(sumClasses, n), 100)),
              elements |-> MathRound(FMul(FDiv(sumElements, n), 100))]

\* calculateAverage: the Number sum / numbers.length
calculateAverage(numbers, scale) ==
    IF Len(numbers) = 0 THEN BZero
    ELSE FDiv(Total(numbers, scale), Len(numbers))

\* Math.round(calculateAverage(numbers) * 100) / 100, in hundredths
RoundedAverage(numbers, scale) ==
    MathRound(FMul(calculateAverage(numbers, scale), 100))

\* specificities.reduce((max, current) => compare(current, max) > 0 ? current : max)
RECURSIVE findMaxSpecificity(_)
findMaxSpecificity(specificities) ==
    IF Len(specificities) = 0 THEN ZeroSpecificity
    ELSE IF Len(specificities) = 1 THEN specificities[1]
    ELSE LET h == Len(specificities) \div 2
             max == findMaxSpecificity(SubSeq(specificities, 1, h))
             current == findMaxSpecificity(SubSeq(specificities, h + 1,
                                                  Len(specificities)))
         IN  IF compareSpecificity(current, max) > 0 THEN current ELSE max

RECURSIVE MaxSeq(_)
MaxSeq(s) ==
    IF Len(s) = 1 THEN s[1]
    ELSE LET h == Len(s) \div 2
         IN  Max2(MaxSeq(SubSeq(s, 1, h)), MaxSeq(SubSeq(s, h + 1, Len(s))))

countImportantInRule(rule) ==
    Len(SelectSeq(rule.declarations, LAMBDA d : d.important))

\* the additive pass of calculateLayoutRiskForDeclarations, per declaration
DeclRisk(decl) ==
    IF decl.property \in LAYOUT_PROPERTIES
    THEN 1
         + (IF decl.property = "position" /\ decl.value \in {StrAbsolute, StrFixed}
            THEN 2 ELSE 0)
         + (IF StartsWithMargin(decl.property) /\ Includes(decl.value, "-")
            THEN 1 ELSE 0)
    ELSE 0

\* variant: only the first combination that is present is applied
RECURSIVE ApplyCombinations_FirstOnly(_, _, _)
ApplyCombinations_FirstOnly(riskScore, present, k) ==
    IF k > Len(RISKY_COMBINATIONS) THEN riskScore
    ELSE LET combo == RISKY_COMBINATIONS[k]
         IN  IF combo.properties \subseteq present
             THEN RoundDiv(riskScore * combo.riskMultiplier, 10)
             ELSE ApplyCombinations_FirstOnly(riskScore, present, k + 1)

\* the loop over RISKY_COMBINATIONS, from combination k on
RECURSIVE ApplyCombinations(_, _, _)
ApplyCombinations(riskScore, present, k) ==
    IF k > Len(RISKY_COMBINATIONS) THEN riskScore
    ELSE LET combo == RISKY_COMBINATIONS[k]
         IN  ApplyCombinations(
                 IF combo.properties \subseteq present
                 THEN RoundDiv(riskScore * combo.riskMultiplier, 10)
                 ELSE riskScore,
                 present, k + 1)

calculateLayoutRiskForDeclarations(declarations) ==
    ApplyCombinations(
        SumSeq([i \in 1..Len(declarations) |-> DeclRisk(declarations[i])]),
        {declarations[i].property : i \in 1..Len(declarations)},
        1)

\* every selector of the rules, in order
AllSelectors(rules) ==
    Flatten([i \in 1..Len(rules) |-> rules[i].selectors])

\* avgSelectorDepth and the components of avgSpecificity are in hundredths
calculateFileMetrics(parseResult) ==
    LET rules == parseResult.rules
        sels == AllSelectors(rules)
        allDepths == [i \in 1..Len(sels) |-> sels[i].depth]
        allSpecificities == [i \in 1..Len(sels) |-> sels[i].specificity]
    IN  [file |-> parseResult.file,
         totalRules |-> Len(rules),
         totalSelectors |-> Len(sels),
         totalDeclarations |->
             SumSeq([i \in 1..Len(rules) |-> Len(rules[i].declarations)]),
         maxSelectorDepth |-> IF sels = <<>> THEN 0 ELSE MaxSeq(allDepths),
         avgSelectorDepth |-> RoundedAverage(allDepths, 100),
         maxSpecificity |-> findMaxSpecificity(allSpecificities),
         avgSpecificity |-> calculateAverageSpecificity(allSpecificities, 100),
         importantCount |->
             SumSeq([i \in 1..Len(rules) |-> countImportantInRule(rules[i])]),
         duplicateDeclarationCount |-> 0,
         layoutRiskScore |->
             SumSeq([i \in 1..Len(rules) |->
                 calculateLayoutRiskForDeclarations(rules[i].declarations)])]

calculateGlobalMetrics(fileMetrics) ==
    IF Len(fileMetrics) = 0
    THEN [totalFiles |-> 0, totalRules |-> 0, totalSelectors |-> 0,
          totalDeclarations |-> 0, maxSelectorDepth |-> 0,
          avgSelectorDepth |-> 0,
          maxSpecificity |-> ZeroSpecificity,
          avgSpecificity |-> ZeroSpecificity,
          totalImportantCount |-> 0, totalDuplicateDeclarations |-> 0,
          overallLayoutRiskScore |-> 0]
    ELSE LET n == Len(fileMetrics)
             F(field(_)) == [i \in 1..n |-> field(fileMetrics[i])]
         IN  [totalFiles |-> n,
              totalRules |-> SumSeq(F(LAMBDA m : m.totalRules)),
              totalSelectors |-> SumSeq(F(LAMBDA m : m.totalSelectors)),
              totalDeclarations |-> SumSeq(F(LAMBDA m : m.totalDeclarations)),
              maxSelectorDepth |-> MaxSeq(F(LAMBDA m : m.maxSelectorDepth)),
              avgSelectorDepth |->
                  RoundedAverage(F(LAMBDA m : m.avgSelectorDepth), 1),
              maxSpecificity |->
                  findMaxSpecificity(F(LAMBDA m : m.maxSpecificity)),
              avgSpecificity |->
                  calculateAverageSpecificity(F(LAMBDA m : m.avgSpecificity), 1),
              totalImportantCount |-> SumSeq(F(LAMBDA m : m.importantCount)),
              totalDuplicateDeclarations |->
                  SumSeq(F(LAMBDA m : m.duplicateDeclarationCount)),
              overallLayoutRiskScore |-> SumSeq(F(LAMBDA m : m.layoutRiskScore))]

\* The stable sort of s by the integer keys k (k[i] is the key of s[i]):
\* Array.prototype.sort with the comparator (a, b) => key(a) - key(b).
SortByKeys(s, k) ==
    LET n == Len(s)
        key == <<>> \o k
        pos == <<>> \o [i \in 1..n |->
                   1 + Cardinality({j \in 1..n :
                           key[j] < key[i] \/ (key[j] = key[i] /\ j < i)})]
    IN  <<>> \o [p \in 1..n |-> s[CHOOSE i \in 1..n : pos[i] = p]]

extractTopSelectors(prs, limit) ==
    LET selectors ==
            Flatten([r \in 1..Len(prs) |->
                Flatten([q \in 1..Len(prs[r].rules) |->
                    [t \in 1..Len(prs[r].rules[q].selectors) |->
                        LET selector == prs[r].rules[q].selectors[t]
                        IN  [selector |-> selector.raw,
                             file |-> prs[r].file,
                             line |-> prs[r].rules[q].line,
                             specificity |-> selector.specificity,
                             depth |-> selector.depth,
                             score |-> specificityToScore(selector.specificity) * 2
                                       + selector.depth * 3]]])])
        sorted == SortByKeys(selectors,
                             [i \in 1..Len(selectors) |-> 0 - selectors[i].score])
    IN  SubSeq(sorted, 1, Min2(limit, Len(sorted)))

\* every declaration of every rule of every file, in encounter order, with
\* the file and rule it sits in
AllDeclarations(prs) ==
    Flatten([r \in 1..Len(prs) |->
        Flatten([q \in 1..Len(prs[r].rules) |->
            [t \in 1..Len(prs[r].rules[q].declarations) |->
                [file |-> prs[r].file,
                 rule |-> prs[r].rules[q],
                 decl |-> prs[r].rules[q].declarations[t]]]])])

\* rule.selectors[0]?.raw || ''
FirstSelectorRaw(rule) ==
    IF Len(rule.selectors) > 0 THEN rule.selectors[1].raw ELSE ""

\* The key `${decl.property}:${decl.value.trim().toLowerCase()}` is the pair
\* of its two parts.
DeclarationKey(decl) == <<decl.property, ToLowerCase(Trim(decl.value))>>

\* A Map is the sequence of its entries in insertion order.
detectDuplicateDeclarations(prs, minCount) ==
    LET all == AllDeclarations(prs)
        keys == Dedup([i \in 1..Len(all) |-> DeclarationKey(all[i].decl)])
        entry(key) ==
            LET occ == SelectSeq(all, LAMBDA e : DeclarationKey(e.decl) = key)
            IN  [key |-> key,
                 count |-> Len(occ),
                 locations |->
                     [i \in 1..Len(occ) |->
                         [file |-> occ[i].file,
                          line |-> occ[i].rule.line,
                          selector |-> FirstSelectorRaw(occ[i].rule)]]]
        declarationMap == [i \in 1..Len(keys) |-> entry(keys[i])]
    IN  SelectSeq(declarationMap, LAMBDA value : value.count >= minCount)

detectOverridePressure(prs, minOverrides) ==
    LET all == AllDeclarations(prs)
        keys == Dedup([i \in 1..Len(all) |-> all[i].decl.property])
        entry(key) ==
            LET occ == SelectSeq(all, LAMBDA e : e.decl.property = key)
            IN  [property |-> key,
                 overrideCount |-> Len(occ),
                 selectors |->
                     [i \in 1..Len(occ) |->
                         [selector |-> FirstSelectorRaw(occ[i].rule),
                          file |-> occ[i].file,
                          line |-> occ[i].rule.line,
                          specificity |->
                              IF Len(occ[i].rule.selectors) > 0
                              THEN occ[i].rule.selectors[1].specificity
                              ELSE ZeroSpecificity]]]
        propertyMap == [i \in 1..Len(keys) |-> entry(keys[i])]
    IN  SelectSeq(propertyMap, LAMBDA value : value.overrideCount >= minOverrides)

----------------------------------------------------------------------------
(* Rule Engine (rules.ts).  An issue is [id, severity, title, evidence];   *)
(* title is the fixed part of the title text.  confidence, why,            *)
(* suggestions and tags are texts fixed per detector (or restate the       *)
(* evidence) and are left out.                                             *)

Evidence(file) ==
    [file |-> file, selector |-> None, property |-> None, value |-> None,
     line |-> None, specificity |-> None, depth |-> None, count |-> None]

Issue(id, severity, title, evidence) ==
    [id |-> id, severity |-> severity, title |-> title, evidence |-> evidence]

\* config.thresholds?.[name] ?? default
Threshold(cfg, name, default) ==
    IF cfg.thresholds = None THEN default
    ELSE OrElse(cfg.thresholds[1][name], default)

\* every rule of every file, in order, with the name of its file
AllRules(prs) ==
    Flatten([r \in 1..Len(prs) |->
        [q \in 1..Len(prs[r].rules) |->
            [file |-> prs[r].file, rule |-> prs[r].rules[q]]]])

\* every selector of every rule of every file, in order
AllRuleSelectors(prs) ==
    Flatten([r \in 1..Len(prs) |->
        Flatten([q \in 1..Len(prs[r].rules) |->
            [t \in 1..Len(prs[r].rules[q].selectors) |->
                [file |-> prs[r].file,
                 rule |-> prs[r].rules[q],
                 selector |-> prs[r].rules[q].selectors[t]]]])])

\* variant: the excess has to exceed 4 and 2
getSeverityForDepth_Strict(depth, maxDepth) ==
    LET excess == depth - maxDepth
    IN  IF excess > 4 THEN "critical"
        ELSE IF excess > 2 THEN "high"
        ELSE "medium"

getSeverityForDepth(depth, maxDepth) ==
    LET excess == depth - maxDepth
    IN  IF excess >= 4 THEN "critical"
        ELSE IF excess >= 2 THEN "high"
        ELSE "medium"

checkDeepSelectors(prs, cfg) ==
    LET maxDepth == Threshold(cfg, "maxSelectorDepth", 4)
        all == AllRuleSelectors(prs)
    IN  Flatten([i \in 1..Len(all) |->
            IF all[i].selector.depth > maxDepth
            THEN << Issue("DEEP_SELECTOR",
                          getSeverityForDepth(all[i].selector.depth, maxDepth),
                          "Deeply nested selector",
                          [Evidence(all[i].file) EXCEPT
                              !.selector = Some(all[i].selector.raw),
                              !.line = Some(all[i].rule.line),
                              !.depth = Some(all[i].selector.depth)]) >>
            ELSE <<>>])

\* variant: a score of exactly maxScore * 2 is already high
getSeverityForSpecificity_AtLeast(specificity, maxScore) ==
    IF specificity.ids >= 2 THEN "critical"
    ELSE IF specificity.ids >= 1 THEN "high"
    ELSE LET score == specificityToScore(specificity)
         IN  IF score >= maxScore * 2 THEN "high"
             ELSE IF 2 * score > maxScore * 3 THEN "medium"
             ELSE "low"

\* maxScore * 2 and maxScore * 1.5 are compared exactly (score and maxScore
\* are integers)
getSeverityForSpecificity(specificity, maxScore) ==
    IF specificity.ids >= 2 THEN "critical"
    ELSE IF specificity.ids >= 1 THEN "high"
    ELSE LET score == specificityToScore(specificity)
         IN  IF score > maxScore * 2 THEN "high"
             ELSE IF 2 * score > maxScore * 3 THEN "medium"
             ELSE "low"

checkHighSpecificity(prs, cfg) ==
    LET maxScore == Threshold(cfg, "maxSpecificityScore", 40)
        all == AllRuleSelectors(prs)
    IN  Flatten([i \in 1..Len(all) |->
            LET selector == all[i].selector
                score == specificityToScore(selector.specificity)
            IN  IF score > maxScore \/ selector.hasId
                THEN << Issue("HIGH_SPECIFICITY",
                              getSeverityForSpecificity(selector.specificity, maxScore),
                              "High specificity selector",
                              [Evidence(all[i].file) EXCEPT
                                  !.selector = Some(selector.raw),
                                  !.line = Some(all[i].rule.line),
                                  !.specificity = Some(selector.specificity)]) >>
                ELSE <<>>])

\* count / maxPerFile >= num / den, as the division decides it: exact for
\* a positive divisor, Infinity (or NaN for 0 / 0) for 0, sign-reversing
\* for a negative one
RatioAtLeast(count, maxPerFile, num, den) ==
    IF maxPerFile > 0 THEN den * count >= num * maxPerFile
    ELSE IF maxPerFile = 0 THEN count > 0
    ELSE den * count <= num * maxPerFile

getSeverityForImportantCount(count, maxPerFile) ==
    IF RatioAtLeast(count, maxPerFile, 4, 1) THEN "critical"
    ELSE IF RatioAtLeast(count, maxPerFile, 5, 2) THEN "high"
    ELSE IF RatioAtLeast(count, maxPerFile, 3, 2) THEN "medium"
    ELSE "low"

\* fileCounts: the Map from result.file to {count, rules}, as the sequence
\* of its entries in insertion order; only rules with an !important
\* declaration enter it
FileCounts(prs) ==
    LET withImportant ==
            SelectSeq(AllRules(prs), LAMBDA e : countImportantInRule(e.rule) > 0)
        files == Dedup([i \in 1..Len(withImportant) |-> withImportant[i].file])
    IN  [k \in 1..Len(files) |->
            LET mine == SelectSeq(withImportant, LAMBDA e : e.file = files[k])
            IN  [file |-> files[k],
                 count |-> SumSeq([i \in 1..Len(mine) |->
                               countImportantInRule(mine[i].rule)]),
                 rules |-> [i \in 1..Len(mine) |-> mine[i].rule]]]

checkImportantAbuse(prs, cfg) ==
    LET maxPerFile == Threshold(cfg, "maxImportantPerFile", 5)
        fileCounts == FileCounts(prs)
        fileIssues ==
            Flatten([k \in 1..Len(fileCounts) |->
                IF fileCounts[k].count > maxPerFile
                THEN LET firstRule == fileCounts[k].rules[1]
                     IN  << Issue("IMPORTANT_ABUSE",
                                  getSeverityForImportantCount(fileCounts[k].count,
                                                               maxPerFile),
                                  "Excessive !important usage",
                                  [Evidence(fileCounts[k].file) EXCEPT
                                      !.selector =
                                          IF Len(firstRule.selectors) > 0
                                          THEN Some(firstRule.selectors[1].raw)
                                          ELSE None,
                                      !.line = Some(firstRule.line),
                                      !.count = Some(fileCounts[k].count)]) >>
                ELSE <<>>])
        all == AllDeclarations(prs)
        declIssues ==
            Flatten([i \in 1..Len(all) |->
                IF all[i].decl.important /\ all[i].decl.property \in LAYOUT_PROPERTIES
                THEN << Issue("IMPORTANT_ABUSE", "medium",
                              "!important on layout property",
                              [Evidence(all[i].file) EXCEPT
                                  !.selector =
                                      IF Len(all[i].rule.selectors) > 0
                                      THEN Some(all[i].rule.selectors[1].raw)
                                      ELSE None,
                                  !.property = Some(all[i].decl.property),
                                  !.value = Some(all[i].decl.value),
                                  !.line = Some(all[i].rule.line)]) >>
                ELSE <<>>])
    IN  fileIssues \o declIssues

\* variant: the count has to exceed five and three times minCount
getSeverityForDuplicateCount_Above(count, minCount) ==
    IF count > minCount * 5 THEN "high"
    ELSE IF count > minCount * 3 THEN "medium"
    ELSE "low"

getSeverityForDuplicateCount(count, minCount) ==
    IF count >= minCount * 5 THEN "high"
    ELSE IF count >= minCount * 3 THEN "medium"
    ELSE "low"

checkDuplicateDeclarations(prs, cfg) ==
    LET minCount == Threshold(cfg, "maxDuplicateDeclarations", 3)
        duplicates == detectDuplicateDeclarations(prs, minCount)
    IN  [i \in 1..Len(duplicates) |->
            LET firstLocation == duplicates[i].locations[1]
            IN  Issue("DUPLICATE_DECLARATIONS",
                      getSeverityForDuplicateCount(duplicates[i].count, minCount),
                      "Duplicate declaration",
                      [Evidence(firstLocation.file) EXCEPT
                          !.property = Some(duplicates[i].key[1]),
                          !.value = Some(duplicates[i].key[2]),
                          !.line = Some(firstLocation.line),
                          !.selector = Some(firstLocation.selector),
                          !.count = Some(duplicates[i].count)])]

\* variant: a score on a boundary falls into the milder severity
getSeverityForLayoutRisk_Above(riskScore) ==
    IF riskScore > 15 THEN "high"
    ELSE IF riskScore > 10 THEN "medium"
    ELSE "low"

getSeverityForLayoutRisk(riskScore) ==
    IF riskScore >= 15 THEN "high"
    ELSE IF riskScore >= 10 THEN "medium"
    ELSE "low"

checkLayoutRiskHotspot(prs, cfg) ==
    LET riskThreshold == 5
        all == AllRules(prs)
    IN  Flatten([i \in 1..Len(all) |->
            LET rule == all[i].rule
                riskScore == calculateLayoutRiskForDeclarations(rule.declarations)
            IN  IF riskScore >= riskThreshold
                THEN << Issue("LAYOUT_RISK_HOTSPOT",
                              getSeverityForLayoutRisk(riskScore),
                              "Layout risk hotspot",
                              [Evidence(all[i].file) EXCEPT
                                  !.selector =
                                      IF Len(rule.selectors) > 0
                                      THEN Some(rule.selectors[1].raw)
                                      ELSE None,
                                  !.line = Some(rule.line),
                                  !.count = Some(Len(SelectSeq(rule.declarations,
                                      LAMBDA d : d.property \in LAYOUT_PROPERTIES)))]) >>
                ELSE <<>>])

getSeverityForOverridePressure(count, variance) ==
    IF count >= 15 /\ variance >= 50 THEN "high"
    ELSE IF count >= 10 \/ variance >= 30 THEN "medium"
    ELSE "low"

RECURSIVE MinSeq(_)
MinSeq(s) ==
    IF Len(s) = 1 THEN s[1]
    ELSE LET h == Len(s) \div 2
         IN  Min2(MinSeq(SubSeq(s, 1, h)), MinSeq(SubSeq(s, h + 1, Len(s))))

checkOverridePressure(prs, cfg) ==
    LET minOverrides == 5
        overridePressure == detectOverridePressure(prs, minOverrides)
    IN  [i \in 1..Len(overridePressure) |->
            LET selectors == overridePressure[i].selectors
                scores == [t \in 1..Len(selectors) |->
                              specificityToScore(selectors[t].specificity)]
                variance == MaxSeq(scores) - MinSeq(scores)
                firstSelector == selectors[1]
            IN  Issue("OVERRIDE_PRESSURE",
                      getSeverityForOverridePressure(
                          overridePressure[i].overrideCount, variance),
                      "High override pressure",
                      [Evidence(firstSelector.file) EXCEPT
                          !.property = Some(overridePressure[i].property),
                          !.selector = Some(firstSelector.selector),
                          !.line = Some(firstSelector.line),
                          !.count = Some(overridePressure[i].overrideCount)])]

\* variant: the totals have to exceed 200 and 20
getSeverityForMissingLayers_Above(totalRules, totalImportant) ==
    IF totalRules > 200 \/ totalImportant > 20 THEN "medium"
    ELSE "low"

getSeverityForMissingLayers(totalRules, totalImportant) ==
    IF totalRules >= 200 \/ totalImportant >= 20 THEN "medium"
    ELSE "low"

\* variant: the condition written with || instead of &&
checkMissingLayers_Or(prs, cfg) ==
    LET anyUsesLayers == \E r \in 1..Len(prs) : prs[r].usesLayers
        totalRules == SumSeq([r \in 1..Len(prs) |-> Len(prs[r].rules)])
        totalImportant ==
            SumSeq([r \in 1..Len(prs) |->
                SumSeq([q \in 1..Len(prs[r].rules) |->
                    countImportantInRule(prs[r].rules[q])])])
        filesWithManyRules == Len(SelectSeq(prs, LAMBDA result : Len(result.rules) >= 20))
    IN  IF ~anyUsesLayers
           \/ (totalRules >= 50 \/ totalImportant >= 5 \/ filesWithManyRules >= 3)
        THEN << Issue("MISSING_LAYERS",
                      getSeverityForMissingLayers(totalRules, totalImportant),
                      "CSS @layer not used for cascade management",
                      [Evidence(IF Len(prs) > 0 THEN prs[1].file ELSE "unknown")
                          EXCEPT !.count = Some(totalRules)]) >>
        ELSE <<>>

checkMissingLayers(prs, cfg) ==
    LET anyUsesLayers == \E r \in 1..Len(prs) : prs[r].usesLayers
        totalRules == SumSeq([r \in 1..Len(prs) |-> Len(prs[r].rules)])
        totalImportant ==
            SumSeq([r \in 1..Len(prs) |->
                SumSeq([q \in 1..Len(prs[r].rules) |->
                    countImportantInRule(prs[r].rules[q])])])
        filesWithManyRules == Len(SelectSeq(prs, LAMBDA result : Len(result.rules) >= 20))
    IN  IF ~anyUsesLayers
           /\ (totalRules >= 50 \/ totalImportant >= 5 \/ filesWithManyRules >= 3)
        THEN << Issue("MISSING_LAYERS",
                      getSeverityForMissingLayers(totalRules, totalImportant),
                      "CSS @layer not used for cascade management",
                      [Evidence(IF Len(prs) > 0 THEN prs[1].file ELSE "unknown")
                          EXCEPT !.count = Some(totalRules)]) >>
        ELSE <<>>

severityOrder(severity) ==
    CASE severity = "critical" -> 0
      [] severity = "high" -> 1
      [] severity = "medium" -> 2
      [] severity = "low" -> 3

\* variant: rules.<name> === true
RuleEnabled_OnlyTrue(cfg, name) ==
    cfg.rules # None /\ cfg.rules[1][name] = Some(TRUE)

\* rules.<name> !== false, with rules = config.rules ?? {}
RuleEnabled(cfg, name) ==
    IF cfg.rules = None THEN TRUE ELSE cfg.rules[1][name] # Some(FALSE)

RunDeepSelectors(prs, cfg) ==
    IF RuleEnabled(cfg, "deepSelectors") THEN checkDeepSelectors(prs, cfg) ELSE <<>>
RunHighSpecificity(prs, cfg) ==
    IF RuleEnabled(cfg, "highSpecificity") THEN checkHighSpecificity(prs, cfg) ELSE <<>>
RunImportantAbuse(prs, cfg) ==
    IF RuleEnabled(cfg, "importantAbuse") THEN checkImportantAbuse(prs, cfg) ELSE <<>>
RunDuplicateDeclarations(prs, cfg) ==
    IF RuleEnabled(cfg, "duplicateDeclarations")
    THEN checkDuplicateDeclarations(prs, cfg) ELSE <<>>
RunLayoutRiskHotspot(prs, cfg) ==
    IF RuleEnabled(cfg, "layoutRiskHotspot") THEN checkLayoutRiskHotspot(prs, cfg) ELSE <<>>
RunOverridePressure(prs, cfg) ==
    IF RuleEnabled(cfg, "overridePressure") THEN checkOverridePressure(prs, cfg) ELSE <<>>
RunMissingLayers(prs, cfg) ==
    IF RuleEnabled(cfg, "missingLayers") THEN checkMissingLayers(prs, cfg) ELSE <<>>

\* the issues pushed by the enabled detectors, before the sort
EmittedIssues(prs, cfg) ==
    RunDeepSelectors(prs, cfg) \o RunHighSpecificity(prs, cfg)
    \o RunImportantAbuse(prs, cfg) \o RunDuplicateDeclarations(prs, cfg)
    \o RunLayoutRiskHotspot(prs, cfg) \o RunOverridePressure(prs, cfg)
    \o RunMissingLayers(prs, cfg)

\* variant: the sort left out
SortBySeverity_NoSort(issues) == issues

SortBySeverity(issues) ==
    SortByKeys(issues, [i \in 1..Len(issues) |-> severityOrder(issues[i].severity)])

runAllRules(prs, cfg) == SortBySeverity(EmittedIssues(prs, cfg))

----------------------------------------------------------------------------
(* Scoring Model (scoring.ts).  Scores are exact rationals; the code       *)
(* computes them in double precision, which agrees with the exact value    *)
(* up to the last bits, so that only Math.round of a weighted sum lying    *)
(* within those bits of a half could differ.                               *)

CategoryScores(s, c, d, l) ==
    [specificity |-> s, cascade |-> c, duplication |-> d, layoutRisk |-> l]

\* variant: the weighted sum is rounded without being clamped
calculateOverallScore_Unclamped(categoryScores) ==
    RRound(RDivInt(RSum(<< RMulInt(categoryScores.specificity, 30),
                           RMulInt(categoryScores.cascade, 25),
                           RMulInt(categoryScores.duplication, 20),
                           RMulInt(categoryScores.layoutRisk, 25) >>), 100))

\* the weights 0.3, 0.25, 0.2, 0.25 in hundredths
calculateOverallScore(categoryScores) ==
    LET weightedSum ==
            RDivInt(RSum(<< RMulInt(categoryScores.specificity, 30),
                            RMulInt(categoryScores.cascade, 25),
                            RMulInt(categoryScores.duplication, 20),
                            RMulInt(categoryScores.layoutRisk, 25) >>), 100)
    IN  RRound(RMin(RInt(100), RMax(RInt(0), weightedSum)))

\* metrics.avgSpecificity is in hundredths, and so is its scalar score
calculateSpecificityScore(metrics, issues) ==
    LET avgSpecScore == Rat(specificityToScore(metrics.avgSpecificity), 100)
        maxSpecScore == specificityToScore(metrics.maxSpecificity)
        specificityIssues ==
            SelectSeq(issues, LAMBDA i : i.id \in {"HIGH_SPECIFICITY", "DEEP_SELECTOR"})
        score ==
            RSum(<< RMin(RInt(30), avgSpecScore),
                    RInt(IF maxSpecScore > 100 THEN 20
                         ELSE IF maxSpecScore > 50 THEN 10 ELSE 0),
                    RInt(IF metrics.maxSelectorDepth > 6 THEN 20
                         ELSE IF metrics.maxSelectorDepth > 4 THEN 10 ELSE 0),
                    RInt(Len(specificityIssues) * 2) >>)
    IN  RMin(RInt(100), score)

\* variant: the penalties of the issues are added after the cap
calculateCascadeScore_Uncapped(metrics, issues) ==
    LET cascadeIssues ==
            SelectSeq(issues, LAMBDA i : i.id \in {"IMPORTANT_ABUSE", "OVERRIDE_PRESSURE"})
        penalty(issue) ==
            IF issue.severity = "critical" THEN 15
            ELSE IF issue.severity = "high" THEN 10
            ELSE IF issue.severity = "medium" THEN 5
            ELSE 2
    IN  RAdd(RMin(RInt(40),
                  Rat(metrics.totalImportantCount * 500,
                      Max2(1, metrics.totalDeclarations))),
             RInt(SumSeq([i \in 1..Len(cascadeIssues) |-> penalty(cascadeIssues[i])])))

\* variant: MISSING_LAYERS issues count as cascade issues
calculateCascadeScore_WithMissingLayers(metrics, issues) ==
    LET importantRatio500 ==
            Rat(metrics.totalImportantCount * 500, Max2(1, metrics.totalDeclarations))
        cascadeIssues ==
            SelectSeq(issues, LAMBDA i : i.id \in {"IMPORTANT_ABUSE", "OVERRIDE_PRESSURE",
                                                   "MISSING_LAYERS"})
        penalty(issue) ==
            IF issue.severity = "critical" THEN 15
            ELSE IF issue.severity = "high" THEN 10
            ELSE IF issue.severity = "medium" THEN 5
            ELSE 2
        score ==
            RAdd(RMin(RInt(40), importantRatio500),
                 RInt(SumSeq([i \in 1..Len(cascadeIssues) |-> penalty(cascadeIssues[i])])))
    IN  RMin(RInt(100), score)

calculateCascadeScore(metrics, issues) ==
    LET importantRatio500 ==
            Rat(metrics.totalImportantCount * 500, Max2(1, metrics.totalDeclarations))
        cascadeIssues ==
            SelectSeq(issues, LAMBDA i : i.id \in {"IMPORTANT_ABUSE", "OVERRIDE_PRESSURE"})
        penalty(issue) ==
            IF issue.severity = "critical" THEN 15
            ELSE IF issue.severity = "high" THEN 10
            ELSE IF issue.severity = "medium" THEN 5
            ELSE 2
        score ==
            RAdd(RMin(RInt(40), importantRatio500),
                 RInt(SumSeq([i \in 1..Len(cascadeIssues) |-> penalty(cascadeIssues[i])])))
    IN  RMin(RInt(100), score)

\* variant: the penalty of an issue is not capped at 10
calculateDuplicationScore_Uncapped(metrics, issues) ==
    LET duplicateRatio200 ==
            Rat(metrics.totalDuplicateDeclarations * 200,
                Max2(1, metrics.totalDeclarations))
        duplicationIssues ==
            SelectSeq(issues, LAMBDA i : i.id = "DUPLICATE_DECLARATIONS")
        score ==
            RAdd(RMin(RInt(40), duplicateRatio200),
                 RSum([i \in 1..Len(duplicationIssues) |->
                     Rat(OrElse(duplicationIssues[i].evidence.count, 0), 2)]))
    IN  RMin(RInt(100), score)

calculateDuplicationScore(metrics, issues) ==
    LET duplicateRatio200 ==
            Rat(metrics.totalDuplicateDeclarations * 200,
                Max2(1, metrics.totalDeclarations))
        duplicationIssues ==
            SelectSeq(issues, LAMBDA i : i.id = "DUPLICATE_DECLARATIONS")
        score ==
            RAdd(RMin(RInt(40), duplicateRatio200),
                 RSum([i \in 1..Len(duplicationIssues) |->
                     RMin(RInt(10),
                          Rat(OrElse(duplicationIssues[i].evidence.count, 0), 2))]))
    IN  RMin(RInt(100), score)

calculateLayoutRiskScore(metrics, issues) ==
    LET ruleCount == Max2(1, metrics.totalRules)
        avgLayoutRisk10 == Rat(metrics.overallLayoutRiskScore * 10, ruleCount)
        layoutIssues == SelectSeq(issues, LAMBDA i : i.id = "LAYOUT_RISK_HOTSPOT")
        penalty(issue) ==
            IF issue.severity = "high" THEN 15
            ELSE IF issue.severity = "medium" THEN 8
            ELSE 3
        score ==
            RAdd(RMin(RInt(40), avgLayoutRisk10),
                 RInt(SumSeq([i \in 1..Len(layoutIssues) |-> penalty(layoutIssues[i])])))
    IN  RMin(RInt(100), score)

calculateCategoryScores(metrics, issues) ==
    CategoryScores(calculateSpecificityScore(metrics, issues),
                   calculateCascadeScore(metrics, issues),
                   calculateDuplicationScore(metrics, issues),
                   calculateLayoutRiskScore(metrics, issues))

\* variant: a score on a threshold falls into the worse grade
scoreToGrade_Below(score) ==
    IF score < 20 THEN "A"
    ELSE IF score < 40 THEN "B"
    ELSE IF score < 60 THEN "C"
    ELSE IF score < 80 THEN "D"
    ELSE "F"

scoreToGrade(score) ==
    IF score <= 20 THEN "A"
    ELSE IF score <= 40 THEN "B"
    ELSE IF score <= 60 THEN "C"
    ELSE IF score <= 80 THEN "D"
    ELSE "F"

Severities == {"critical", "high", "medium", "low"}

countIssuesBySeverity(issues) ==
    [sev \in Severities |-> Len(SelectSeq(issues, LAMBDA i : i.severity = sev))]

generateSummary(metrics, issues) ==
    LET categoryScores == calculateCategoryScores(metrics, issues)
        overallScore == calculateOverallScore(categoryScores)
    IN  [overallScore |-> overallScore,
         categoryScores |-> categoryScores,
         grade |-> scoreToGrade(overallScore),
         totalIssues |-> Len(issues),
         issuesBySeverity |-> countIssuesBySeverity(issues)]

Recommendation(category, title, priority, relatedIssueIds) ==
    [category |-> category, title |-> title, priority |-> priority,
     relatedIssueIds |-> relatedIssueIds]

priorityOrder(priority) ==
    CASE priority = "high" -> 0
      [] priority = "medium" -> 1
      [] priority = "low" -> 2

generateRecommendations(issues) ==
    LET n(id) == Len(SelectSeq(issues, LAMBDA i : i.id = id))
        recommendations ==
            (IF n("HIGH_SPECIFICITY") > 0 \/ n("DEEP_SELECTOR") > 0
             THEN << Recommendation("Specificity", "Reduce selector complexity",
                         IF n("HIGH_SPECIFICITY") > 5 THEN "high" ELSE "medium",
                         <<"HIGH_SPECIFICITY", "DEEP_SELECTOR">>) >>
             ELSE <<>>)
            \o (IF n("IMPORTANT_ABUSE") > 0
                THEN << Recommendation("Cascade", "Reduce !important usage", "high",
                            <<"IMPORTANT_ABUSE">>) >>
                ELSE <<>>)
            \o (IF n("OVERRIDE_PRESSURE") > 0
                THEN << Recommendation("Cascade", "Consolidate override patterns",
                            "medium", <<"OVERRIDE_PRESSURE">>) >>
                ELSE <<>>)
            \o (IF n("DUPLICATE_DECLARATIONS") > 0
                THEN << Recommendation("Duplication", "Extract repeated declarations",
                            IF n("DUPLICATE_DECLARATIONS") > 10 THEN "high" ELSE "medium",
                            <<"DUPLICATE_DECLARATIONS">>) >>
                ELSE <<>>)
            \o (IF n("LAYOUT_RISK_HOTSPOT") > 0
                THEN << Recommendation("Layout", "Simplify layout rules",
                            IF n("LAYOUT_RISK_HOTSPOT") > 5 THEN "high" ELSE "low",
                            <<"LAYOUT_RISK_HOTSPOT">>) >>
                ELSE <<>>)
    IN  SortByKeys(recommendations,
                   [i \in 1..Len(recommendations) |->
                       priorityOrder(recommendations[i].priority)])

----------------------------------------------------------------------------
(* Analyzer (analyzer.ts).  An AnalyzerConfig is [thresholds, maxScore,    *)
(* rules]: thresholds and rules are None or Some(record of optional        *)
(* fields), maxScore is optional.  include, exclude and ignorePatterns     *)
(* steer the file search only and are left out.                            *)

ThresholdNames ==
    {"maxSelectorDepth", "maxSpecificityScore", "maxImportantPerFile",
     "maxDuplicateDeclarations"}
RuleNames ==
    {"deepSelectors", "highSpecificity", "importantAbuse", "duplicateDeclarations",
     "layoutRiskHotspot", "overridePressure", "missingLayers"}

DefaultThresholds ==
    [maxSelectorDepth |-> Some(4), maxSpecificityScore |-> Some(40),
     maxImportantPerFile |-> Some(5), maxDuplicateDeclarations |-> Some(3)]

\* mergeConfig's defaultConfig.rules names six detectors; missingLayers is
\* not among them
DefaultRules ==
    [deepSelectors |-> Some(TRUE), highSpecificity |-> Some(TRUE),
     importantAbuse |-> Some(TRUE), duplicateDeclarations |-> Some(TRUE),
     layoutRiskHotspot |-> Some(TRUE), overridePressure |-> Some(TRUE),
     missingLayers |-> None]

\* { ...defaults, ...user }: a key the user gives replaces the default
Spread(defaults, user) ==
    IF user = None THEN defaults
    ELSE [k \in DOMAIN defaults |->
             IF user[1][k] # None THEN user[1][k] ELSE defaults[k]]

mergeConfig(userConfig) ==
    [thresholds |-> Some(Spread(DefaultThresholds, userConfig.thresholds)),
     maxScore |-> Some(OrElse(userConfig.maxScore, 100)),
     rules |-> Some(Spread(DefaultRules, userConfig.rules))]

\* timestamp (the wall clock at the call) is left out
generateReport(prs, cfg) ==
    LET fileMetrics == <<>> \o [r \in 1..Len(prs) |-> calculateFileMetrics(prs[r])]
        globalMetrics == calculateGlobalMetrics(fileMetrics)
        issues == runAllRules(prs, cfg)
    IN  [version |-> "0.1.0",
         summary |-> generateSummary(globalMetrics, issues),
         globalMetrics |-> globalMetrics,
         fileMetrics |-> fileMetrics,
         issues |-> issues,
         topSelectors |-> extractTopSelectors(prs, 10),
         recommendations |-> generateRecommendations(issues)]

\* variant: the score test written >= instead of >
checkThresholds_ScoreAtLeast(rep, cfg) ==
    LET maxScore == OrElse(cfg.maxScore, 100)
        reasons ==
            (IF rep.summary.overallScore >= maxScore
             THEN << [text |-> "Overall score exceeds maximum allowed",
                      found |-> rep.summary.overallScore,
                      allowed |-> maxScore] >>
             ELSE <<>>)
            \o (IF rep.summary.issuesBySeverity["critical"] > 0
                THEN << [text |-> "Found critical issue(s)",
                         found |-> rep.summary.issuesBySeverity["critical"],
                         allowed |-> 0] >>
                ELSE <<>>)
    IN  [passed |-> Len(reasons) = 0, reasons |-> reasons]

\* a reason is the text's template with the numbers it interpolates
checkThresholds(rep, cfg) ==
    LET mergedConfig == mergeConfig(cfg)
        reasons ==
            (IF rep.summary.overallScore > mergedConfig.maxScore[1]
             THEN << [text |-> "Overall score exceeds maximum allowed",
                      found |-> rep.summary.overallScore,
                      allowed |-> mergedConfig.maxScore[1]] >>
             ELSE <<>>)
            \o (IF rep.summary.issuesBySeverity["critical"] > 0
                THEN << [text |-> "Found critical issue(s)",
                         found |-> rep.summary.issuesBySeverity["critical"],
                         allowed |-> 0] >>
                ELSE <<>>)
    IN  [passed |-> Len(reasons) = 0, reasons |-> reasons]

----------------------------------------------------------------------------
(* Inputs.  An AnalysisInput is [type, path, disk, content, filename]:     *)
(* disk is what reading path yields (None: the read fails), content and    *)
(* filename are optional.  A stylesheet text is [empty, throws, nodes]:    *)
(* empty for the text '', throws when postcss.parse raises on it.          *)

MaxInputs == 2

Sheet(nodes) == [empty |-> FALSE, throws |-> FALSE, nodes |-> nodes]
EmptySheet == [empty |-> TRUE, throws |-> FALSE, nodes |-> <<>>]
BrokenSheet == [empty |-> FALSE, throws |-> TRUE, nodes |-> <<>>]

ContentInput(css, filename) ==
    [type |-> "content", path |-> "", disk |-> None, content |-> Some(css),
     filename |-> filename]
FileInput(path, disk) ==
    [type |-> "file", path |-> path, disk |-> disk, content |-> None,
     filename |-> None]

\* the selector of k nodes joined by descendant combinators, and the
\* compound selector of k nodes
RECURSIVE Chain(_, _)
Chain(k, node) ==
    IF k <= 1 THEN <<node>>
    ELSE Chain(k - 1, node) \o <<Node("combinator", " "), node>>
Compound(k, node) == [i \in 1..k |-> node]
Repeat(k, x) == [i \in 1..k |-> x]

Src(raw, sel) == [raw |-> raw, sel |-> sel, throws |-> FALSE, chars |-> <<>>]
\* a selector string the selector parser raises on
Unparsed(raw, chars) == [raw |-> raw, sel |-> <<>>, throws |-> TRUE, chars |-> chars]
Tag == Node("tag", "a")
Class == Node("class", "a")
Id == Node("id", "x")

StrRed == <<"r", "e", "d">>
StrRedShout == <<" ", "R", "E", "D", " ">>
StrPx == <<"1", "p", "x">>
StrNegPx == <<"-", "1", "p", "x">>
StrBlock == <<"b", "l", "o", "c", "k">>

SelPlain == Src(".a", <<Class>>)

\* #x #x, a a a a a a { color: RED !important; width: 1px !important }
\* .a { color: red }
ShMixed ==
    Sheet(<< SrcRule(1, << Src("#x #x", Chain(2, Id)), Src("a a a a a a", Chain(6, Tag)) >>,
                     << Decl("color", StrRedShout, TRUE), Decl("width", StrPx, TRUE) >>),
             SrcRule(2, <<SelPlain>>, <<Decl("color", StrRed, FALSE)>>) >>)

\* .a { position: absolute; top: 1px; left: 1px; display: block; margin: -1px }
\* a.a { 5 times color: red !important }
ShLayout ==
    Sheet(<< SrcRule(1, <<SelPlain>>,
                     << Decl("position", StrAbsolute, FALSE), Decl("top", StrPx, FALSE),
                        Decl("left", StrPx, FALSE), Decl("display", StrBlock, FALSE),
                        Decl("margin", StrNegPx, FALSE) >>),
             SrcRule(2, <<Src("a.a", <<Tag, Class>>)>>,
                     Repeat(5, Decl("color", StrRed, TRUE))) >>)

\* @layer a, b; @layer a { .a { color: red } }
\* @media (x) { a a a a a { width: 1px } }
ShLayer ==
    Sheet(<< AtRule("layer", <<"a", ",", " ", "b">>, <<>>),
             AtRule("layer", <<"a">>,
                    << SrcRule(2, <<SelPlain>>, <<Decl("color", StrRed, FALSE)>>) >>),
             AtRule("media", <<"(", "x", ")">>,
                    << SrcRule(3, <<Src("a a a a a", Chain(5, Tag))>>,
                               <<Decl("width", StrPx, FALSE)>>) >>) >>)

\* .a.a.a.a.a { 6 times color: red !important }
ShImportant ==
    Sheet(<< SrcRule(1, <<Src(".a.a.a.a.a", Compound(5, Class))>>,
                     Repeat(6, Decl("color", StrRed, TRUE))) >>)

Inputs ==
    { ContentInput(ShMixed, None),
      ContentInput(ShLayout, Some("a.css")),
      ContentInput(ShImportant, Some("a.css")),
      ContentInput(EmptySheet, None),
      ContentInput(BrokenSheet, Some("b.css")),
      FileInput("c.css", Some(ShLayer)),
      FileInput("missing.css", None) }

NoThresholds ==
    [maxSelectorDepth |-> None, maxSpecificityScore |-> None,
     maxImportantPerFile |-> None, maxDuplicateDeclarations |-> None]
NoRules == [name \in RuleNames |-> None]

CfgEmpty == [thresholds |-> None, maxScore |-> None, rules |-> None]

Configs ==
    { CfgEmpty,
      [thresholds |-> Some([NoThresholds EXCEPT !.maxSelectorDepth = Some(2),
                                               !.maxDuplicateDeclarations = Some(2)]),
       maxScore |-> Some(5),
       rules |-> None],
      [thresholds |-> None,
       maxScore |-> Some(60),
       rules |-> Some([NoRules EXCEPT !.deepSelectors = Some(FALSE),
                                      !.highSpecificity = Some(TRUE)])],
      [thresholds |-> Some(NoThresholds),
       maxScore |-> Some(0),
       rules |-> Some([NoRules EXCEPT !.importantAbuse = Some(FALSE),
                                      !.missingLayers = Some(FALSE)])] }

\* Stylesheets whose selectors differ in depth and in specificity
\* a, a a a a, a a a a a { color: red }
ShDepthsLow ==
    Sheet(<< SrcRule(1, << Src("a", Chain(1, Tag)), Src("a a a a", Chain(4, Tag)),
                          Src("a a a a a", Chain(5, Tag)) >>,
                     <<Decl("color", StrRed, FALSE)>>) >>)
\* a a a a a a { color: red }   a*7, a*8, a*9 { color: red }
ShDepthsHigh ==
    Sheet(<< SrcRule(1, <<Src("a a a a a a", Chain(6, Tag))>>,
                     <<Decl("color", StrRed, FALSE)>>),
             SrcRule(2, << Src("a a a a a a a", Chain(7, Tag)),
                          Src("a a a a a a a a", Chain(8, Tag)),
                          Src("a a a a a a a a a", Chain(9, Tag)) >>,
                     <<Decl("color", StrRed, FALSE)>>) >>)
\* compound selectors of 2, 3, 4 and 6 classes, and of a tag with 3 and 4
ShClassesLow ==
    Sheet(<< SrcRule(1, << Src(".a.a", Compound(2, Class)),
                          Src(".a.a.a", Compound(3, Class)),
                          Src("a.a.a.a", <<Tag>> \o Compound(3, Class)),
                          Src(".a.a.a.a", Compound(4, Class)) >>,
                     <<Decl("color", StrRed, FALSE)>>),
             SrcRule(2, << Src("a.a.a.a.a", <<Tag>> \o Compound(4, Class)),
                          Src(".a.a.a.a.a.a", Compound(6, Class)) >>,
                     <<Decl("color", StrRed, FALSE)>>) >>)
\* a tag with 6 classes, 8 classes, a tag with 8 classes
ShClassesHigh ==
    Sheet(<< SrcRule(1, << Src("a.a.a.a.a.a.a", <<Tag>> \o Compound(6, Class)),
                          Src(".a.a.a.a.a.a.a.a", Compound(8, Class)),
                          Src("a.a.a.a.a.a.a.a.a", <<Tag>> \o Compound(8, Class)) >>,
                     <<Decl("color", StrRed, FALSE)>>) >>)
\* #x   #x#x   a:not(#x)   .a:hover::before
ShIds ==
    Sheet(<< SrcRule(1, << Src("#x", <<Id>>), Src("#x#x", Compound(2, Id)) >>,
                     <<Decl("color", StrRed, FALSE)>>),
             SrcRule(2, << Src("a:not(#x)", <<Tag, Pseudo(1, "not", << <<Id>> >>)>>),
                          Src(".a:hover::before",
                              <<Class, Pseudo(1, "hover", <<>>),
                                Pseudo(2, "before", <<>>)>>) >>,
                     <<Decl("color", StrRed, FALSE)>>) >>)

SelectorInputs ==
    { ContentInput(ShDepthsLow, None),
      ContentInput(ShDepthsHigh, Some("a.css")),
      ContentInput(ShClassesLow, None),
      ContentInput(ShClassesHigh, Some("b.css")),
      FileInput("c.css", Some(ShIds)) }

SelectorConfigs ==
    { CfgEmpty,
      [thresholds |-> Some([NoThresholds EXCEPT !.maxSelectorDepth = Some(2),
                                               !.maxSpecificityScore = Some(20)]),
       maxScore |-> None, rules |-> None],
      [thresholds |-> Some([NoThresholds EXCEPT !.maxSelectorDepth = Some(5),
                                               !.maxSpecificityScore = Some(200)]),
       maxScore |-> None, rules |-> Some(NoRules)] }

\* Stylesheets that differ in their number of !important declarations:
\* .a { n times color: red !important; color: red }
\* a { m times width: 1px !important }
ImportantSheet(n, m) ==
    Sheet(<< SrcRule(1, <<SelPlain>>,
                     Repeat(n, Decl("color", StrRed, TRUE))
                         \o <<Decl("color", StrRed, FALSE)>>) >>
          \o (IF m > 0
              THEN << SrcRule(2, <<Src("a", <<Tag>>)>>,
                              Repeat(m, Decl("width", StrPx, TRUE))) >>
              ELSE <<>>))

ImportantInputs ==
    { ContentInput(ImportantSheet(3, 0), None),
      ContentInput(ImportantSheet(4, 2), None),
      ContentInput(ImportantSheet(0, 0), Some("a.css")),
      ContentInput(ImportantSheet(5, 0), Some("a.css")),
      ContentInput(ImportantSheet(7, 1), Some("b.css")),
      ContentInput(ImportantSheet(12, 0), Some("c.css")),
      ContentInput(ImportantSheet(10, 3), Some("d.css")),
      FileInput("e.css", Some(ImportantSheet(20, 0))) }

ImportantConfigs ==
    { CfgEmpty,
      [thresholds |-> Some([NoThresholds EXCEPT !.maxImportantPerFile = Some(2)]),
       maxScore |-> None, rules |-> None],
      [thresholds |-> Some([NoThresholds EXCEPT !.maxImportantPerFile = Some(4)]),
       maxScore |-> None, rules |-> Some(NoRules)] }

\* Stylesheets that repeat declarations:
\* .a { display: block; n times color: red; g times margin: -1px }
\* a { m times color:  RED ; w times width: 1px }
DuplicateSheet(n, g, m, w) ==
    Sheet(<< SrcRule(1, <<SelPlain>>,
                     <<Decl("display", StrBlock, FALSE)>>
                         \o Repeat(n, Decl("color", StrRed, FALSE))
                         \o Repeat(g, Decl("margin", StrNegPx, FALSE))),
             SrcRule(2, <<Src("a", <<Tag>>)>>,
                     Repeat(m, Decl("color", StrRedShout, FALSE))
                         \o Repeat(w, Decl("width", StrPx, FALSE))) >>)

DuplicateInputs ==
    { ContentInput(DuplicateSheet(1, 0, 0, 1), None),
      ContentInput(DuplicateSheet(0, 0, 2, 0), Some("a.css")),
      ContentInput(DuplicateSheet(3, 0, 3, 3), None),
      ContentInput(DuplicateSheet(8, 0, 0, 1), Some("b.css")),
      FileInput("c.css", Some(DuplicateSheet(7, 3, 8, 9))) }

DuplicateConfigs ==
    { CfgEmpty,
      [thresholds |-> Some([NoThresholds EXCEPT !.maxDuplicateDeclarations = Some(2)]),
       maxScore |-> None, rules |-> None],
      [thresholds |-> Some(NoThresholds), maxScore |-> None, rules |-> Some(NoRules)] }

\* Stylesheets of k rules, none in a layer:
\* .a { n times color: red !important; color: red }   on line 1
\* .a { color: red }                                  on each line 2..k
ManyRulesSheet(k, n) ==
    Sheet([q \in 1..k |->
        SrcRule(q, <<SelPlain>>,
                (IF q = 1 THEN Repeat(n, Decl("color", StrRed, TRUE)) ELSE <<>>)
                    \o <<Decl("color", StrRed, FALSE)>>)])

LayerInputs ==
    { ContentInput(ManyRulesSheet(49, 0), None),
      ContentInput(ManyRulesSheet(1, 1), Some("a.css")),
      ContentInput(ManyRulesSheet(1, 4), Some("b.css")),
      ContentInput(ManyRulesSheet(20, 0), Some("d.css")),
      ContentInput(ManyRulesSheet(151, 16), Some("e.css")),
      FileInput("c.css", Some(ShLayer)) }

LayerConfigs ==
    { CfgEmpty,
      [thresholds |-> None, maxScore |-> None,
       rules |-> Some([NoRules EXCEPT !.missingLayers = Some(TRUE)])] }

\* Stylesheets whose rule q, on line q, repeats width: 1px widths[q] times:
\* .a { width: 1px; ... }
WidthSheet(widths) ==
    Sheet([q \in 1..Len(widths) |->
        SrcRule(q, <<SelPlain>>, Repeat(widths[q], Decl("width", StrPx, FALSE)))])

LayoutInputs ==
    { ContentInput(WidthSheet(<<4, 5>>), None),
      ContentInput(WidthSheet(<<10, 9>>), Some("a.css")),
      ContentInput(WidthSheet(<<14, 15, 0>>), Some("b.css")),
      ContentInput(ShLayout, Some("a.css")),
      FileInput("c.css", Some(ShLayer)) }

LayoutConfigs ==
    { CfgEmpty,
      [thresholds |-> Some([maxSelectorDepth |-> Some(1), maxSpecificityScore |-> Some(1),
                            maxImportantPerFile |-> Some(1),
                            maxDuplicateDeclarations |-> Some(20)]),
       maxScore |-> Some(1), rules |-> None],
      [thresholds |-> None, maxScore |-> None,
       rules |-> Some([NoRules EXCEPT !.layoutRiskHotspot = Some(TRUE)])] }

\* Stylesheets for the override groups: a property defined once in each of
\* several rules, twice in one rule, and in rules of different selectors
OverrideInputs ==
    { ContentInput(WidthSheet(<<1, 1>>), None),
      ContentInput(WidthSheet(<<1, 1, 1>>), Some("a.css")),
      ContentInput(WidthSheet(<<2>>), Some("b.css")),
      ContentInput(ShMixed, Some("a.css")),
      FileInput("c.css", Some(ShLayer)) }

\* the minOverrides arguments; 5 is the parameter's default
MinOverridesValues == {2, 3, 5}

\* the sequences over S of length at most n
RECURSIVE SeqsUpTo(_, _)
SeqsUpTo(S, n) ==
    IF n = 0 THEN {<<>>}
    ELSE LET shorter == SeqsUpTo(S, n - 1)
         IN  shorter \cup {Append(q, x) : q \in shorter, x \in S}

----------------------------------------------------------------------------
(* The state machine: analyze(inputs, config) visits its inputs one by     *)
(* one, then generateReport; the caller (the check command) then calls     *)
(* checkThresholds; runAllRules may also be called directly with the       *)
(* user's configuration.                                                   *)

InitWith(inputLists, configs) ==
    /\ inputs \in inputLists
    /\ config \in configs
    /\ parseResults = <<>>
    /\ report = None
    /\ verdict = None
    /\ call = None

Init == InitWith(SeqsUpTo(Inputs, MaxInputs), Configs)

\* one iteration of the loop of analyze
AnalyzeInput ==
    /\ inputs # <<>>
    /\ LET input == Head(inputs)
       IN  parseResults' =
               IF input.type = "file" /\ input.path # ""
               THEN Append(parseResults,
                           parseCSSFile(input.path, input.disk # None,
                                        OrElse(input.disk, EmptySheet)))
               ELSE IF input.type = "content" /\ input.content # None
                       /\ ~input.content[1].empty
               THEN Append(parseResults,
                           parseCSS(input.content[1],
                                    OrElse(input.filename, "input.css")))
               ELSE parseResults
    /\ inputs' = Tail(inputs)
    /\ UNCHANGED <<config, report, verdict, call>>

\* variant: generateReport empties the parseResults array it is given
GenerateReport_DrainsResults ==
    /\ inputs = <<>>
    /\ report = None
    /\ call = None
    /\ report' = Some(generateReport(parseResults, mergeConfig(config)))
    /\ parseResults' = <<>>
    /\ UNCHANGED <<inputs, config, verdict, call>>

\* the end of analyze: return generateReport(parseResults, mergedConfig)
GenerateReport ==
    /\ inputs = <<>>
    /\ report = None
    /\ call = None
    /\ report' = Some(generateReport(parseResults, mergeConfig(config)))
    /\ UNCHANGED <<inputs, config, parseResults, verdict, call>>

CheckThresholds ==
    /\ report # None
    /\ verdict = None
    /\ verdict' = Some(checkThresholds(report[1], config))
    /\ UNCHANGED <<inputs, config, parseResults, report, call>>

\* runAllRules(parseResults, config) called on its own, in place of
\* generateReport, with the configuration as the user gave it
CallRunAllRules ==
    /\ inputs = <<>>
    /\ call = None
    /\ report = None
    /\ call' = Some([fn |-> "runAllRules",
                     args |-> <<parseResults, config>>,
                     ret |-> runAllRules(parseResults, config)])
    /\ UNCHANGED <<inputs, config, parseResults, report, verdict>>

Next == AnalyzeInput \/ GenerateReport \/ CheckThresholds \/ CallRunAllRules

Spec == Init /\ [][Next]_vars

\* The same machine over stylesheets that differ in their selectors, and
\* over stylesheets that differ in their !important declarations
InitSelectors == InitWith(SeqsUpTo(SelectorInputs, MaxInputs), SelectorConfigs)
SpecSelectors == InitSelectors /\ [][Next]_vars

InitImportant == InitWith(SeqsUpTo(ImportantInputs, MaxInputs), ImportantConfigs)
SpecImportant == InitImportant /\ [][Next]_vars

\* The scoring functions called on their own.  Category scores are drawn
\* from every equal quadruple 0..100 and from a grid that has values below
\* 0, above 100 and fractional ones.
MaxRepeat == 16

ScoreValues == {RInt(-20), RInt(0), Rat(15, 2), RInt(50), RInt(100), RInt(250)}

ScoringCategoryScores ==
    {CategoryScores(RInt(c), RInt(c), RInt(c), RInt(c)) : c \in 0..100}
    \cup {CategoryScores(a, b, c, d) : a \in ScoreValues, b \in ScoreValues,
                                       c \in ScoreValues, d \in ScoreValues}

\* global metrics: the parts that the four category scores read
SpecificityProfiles ==
    { [avg |-> ZeroSpecificity, max |-> ZeroSpecificity, depth |-> 0],
      [avg |-> [ids |-> 0, classes |-> 150, elements |-> 25],
       max |-> [ids |-> 0, classes |-> 6, elements |-> 0], depth |-> 5],
      [avg |-> [ids |-> 100, classes |-> 200, elements |-> 0],
       max |-> [ids |-> 2, classes |-> 0, elements |-> 0], depth |-> 7] }

CascadeProfiles ==
    { [declarations |-> 0, important |-> 0],
      [declarations |-> 40, important |-> 1],
      [declarations |-> 12, important |-> 1] }

LayoutProfiles ==
    { [rules |-> 0, risk |-> 0], [rules |-> 3, risk |-> 4], [rules |-> 1, risk |-> 9] }

ScoringMetrics ==
    { [totalFiles |-> 1, totalRules |-> l.rules, totalSelectors |-> l.rules,
       totalDeclarations |-> c.declarations,
       maxSelectorDepth |-> sp.depth, avgSelectorDepth |-> sp.depth * 100,
       maxSpecificity |-> sp.max, avgSpecificity |-> sp.avg,
       totalImportantCount |-> c.important,
       totalDuplicateDeclarations |-> d,
       overallLayoutRiskScore |-> l.risk] :
        sp \in SpecificityProfiles, c \in CascadeProfiles, d \in {0, 3},
        l \in LayoutProfiles }

\* issue lists: blocks of equal issues, each block empty, single or long
ScoringBlocks(issues) == {Repeat(k, i) : k \in {0, 1, MaxRepeat}, i \in issues}

ScoringIssues ==
    { a \o b \o c \o d :
        a \in ScoringBlocks({Issue("HIGH_SPECIFICITY", "high", "High specificity selector",
                                   Evidence("a.css"))}),
        b \in ScoringBlocks({Issue("IMPORTANT_ABUSE", sev, "Excessive !important usage",
                                   [Evidence("a.css") EXCEPT !.count = Some(6)]) :
                                 sev \in {"critical", "low"}}),
        c \in ScoringBlocks({Issue("DUPLICATE_DECLARATIONS", "low",
                                   "Duplicate declaration",
                                   [Evidence("a.css") EXCEPT !.count = Some(n)]) :
                                 n \in {3, 30}}),
        d \in ScoringBlocks({Issue("LAYOUT_RISK_HOTSPOT", sev, "Layout risk hotspot",
                                   Evidence("a.css")) : sev \in {"high", "low"}}) }

InitScoring == InitWith({<<>>}, {CfgEmpty})

CallCalculateOverallScore ==
    /\ call = None
    /\ \E categoryScores \in ScoringCategoryScores :
           call' = Some([fn |-> "calculateOverallScore",
                         args |-> <<categoryScores>>,
                         ret |-> calculateOverallScore(categoryScores)])
    /\ UNCHANGED <<inputs, config, parseResults, report, verdict>>

CallGenerateSummary ==
    /\ call = None
    /\ \E metrics \in ScoringMetrics, issues \in ScoringIssues :
           call' = Some([fn |-> "generateSummary",
                         args |-> <<metrics, issues>>,
                         ret |-> generateSummary(metrics, issues)])
    /\ UNCHANGED <<inputs, config, parseResults, report, verdict>>

NextScoring == CallCalculateOverallScore \/ CallGenerateSummary

SpecScoring == InitScoring /\ [][NextScoring]_vars

InitDuplicates == InitWith(SeqsUpTo(DuplicateInputs, MaxInputs), DuplicateConfigs)
SpecDuplicates == InitDuplicates /\ [][Next]_vars

InitLayers == InitWith(SeqsUpTo(LayerInputs, MaxInputs), LayerConfigs)
SpecLayers == InitLayers /\ [][Next]_vars

InitLayout == InitWith(SeqsUpTo(LayoutInputs, MaxInputs), LayoutConfigs)
SpecLayout == InitLayout /\ [][Next]_vars

\* detectOverridePressure(parseResults, minOverrides) called on its own
\* once every input is parsed
CallDetectOverridePressure ==
    /\ inputs = <<>>
    /\ call = None
    /\ \E minOverrides \in MinOverridesValues :
        call' = Some([fn |-> "detectOverridePressure",
                      args |-> <<parseResults, minOverrides>>,
                      ret |-> detectOverridePressure(parseResults, minOverrides)])
    /\ UNCHANGED <<inputs, config, parseResults, report, verdict>>

NextOverride == AnalyzeInput \/ CallDetectOverridePressure

InitOverride == InitWith(SeqsUpTo(OverrideInputs, MaxInputs), {CfgEmpty})
SpecOverride == InitOverride /\ [][NextOverride]_vars

\* The selector functions called on their own.  A parsed selector is a
\* list of at most MaxCompound simple nodes and combinators, or a
\* functional pseudo-class over such a list, alone, compounded with a tag or
\* after a descendant combinator; an unparsed one is any string of at most
\* MaxSelectorLength characters of SelectorAlphabet that the selector
\* parser is taken to raise on.
MaxCompound == 2
MaxSelectorLength == 3
MaxSpecificities == 3

Attribute == Node("attribute", "a")
Universal == Node("universal", "*")
Hover == Pseudo(1, "hover", <<>>)
LegacyBefore == Pseudo(1, "before", <<>>)
Marker == Pseudo(2, "marker", <<>>)
Descendant == Node("combinator", " ")
Child == Node("combinator", ">")
Sibling == Node("combinator", "~")

SelectorAtoms ==
    {Id, Class, Attribute, Tag, Universal, Hover, LegacyBefore, Marker,
     Descendant, Child}

PseudoArguments ==
    { << <<Class>> >>,
      << <<Tag, Child, Id>> >>,
      << <<Class, Descendant, Class>>, <<Hover, Sibling, Marker>> >>,
      << <<Pseudo(1, "not", << <<Id, Descendant, Tag>> >>)>> >> }

FunctionalPseudos ==
    {Pseudo(1, v, a) : v \in {"not", "is", "where", "has"}, a \in PseudoArguments}

ParsedSelectors ==
    SeqsUpTo(SelectorAtoms, MaxCompound)
    \cup {<<f>> : f \in FunctionalPseudos}
    \cup {<<Tag, f>> : f \in FunctionalPseudos}
    \cup {<<Class, Descendant, f>> : f \in FunctionalPseudos}

SelectorAlphabet == {"a", "#", ".", "[", "]", ":", " ", ">"}

\* the selector strings: the raw text of a parsed one is not read by the
\* functions and is left empty; the raw text of an unparsed one is its
\* characters
SelectorStrings ==
    {Src(<<>>, sel) : sel \in ParsedSelectors}
    \cup {Unparsed(chars, chars) : chars \in SeqsUpTo(SelectorAlphabet, MaxSelectorLength)}

SpecificityCounts == {0, 1, 2, 11}
Specificities ==
    {[ids |-> i, classes |-> c, elements |-> el] :
        i \in SpecificityCounts, c \in SpecificityCounts, el \in SpecificityCounts}
SpecificityLists ==
    SeqsUpTo({[ids |-> 0, classes |-> 0, elements |-> 0],
              [ids |-> 0, classes |-> 11, elements |-> 2],
              [ids |-> 1, classes |-> 0, elements |-> 0],
              [ids |-> 1, classes |-> 0, elements |-> 1]}, MaxSpecificities)

CallCalculateSpecificity ==
    /\ call = None
    /\ \E selector \in SelectorStrings :
           call' = Some([fn |-> "calculateSpecificity",
                         args |-> <<selector>>,
                         ret |-> calculateSpecificity(selector)])
    /\ UNCHANGED <<inputs, config, parseResults, report, verdict>>

CallCalculateSelectorDepth ==
    /\ call = None
    /\ \E selector \in SelectorStrings :
           call' = Some([fn |-> "calculateSelectorDepth",
                         args |-> <<selector>>,
                         ret |-> calculateSelectorDepth(selector)])
    /\ UNCHANGED <<inputs, config, parseResults, report, verdict>>

CallParseSelector ==
    /\ call = None
    /\ \E selectorStr \in SelectorStrings :
           call' = Some([fn |-> "parseSelector",
                         args |-> <<selectorStr>>,
                         ret |-> parseSelector(selectorStr)])
    /\ UNCHANGED <<inputs, config, parseResults, report, verdict>>

CallCompareSpecificity ==
    /\ call = None
    /\ \E a \in Specificities, b \in Specificities :
           call' = Some([fn |-> "compareSpecificity",
                         args |-> <<a, b>>,
                         ret |-> compareSpecificity(a, b)])
    /\ UNCHANGED <<inputs, config, parseResults, report, verdict>>

CallFindMaxSpecificity ==
    /\ call = None
    /\ \E specificities \in SpecificityLists :
           call' = Some([fn |-> "findMaxSpecificity",
                         args |-> <<specificities>>,
                         ret |-> findMaxSpecificity(specificities)])
    /\ UNCHANGED <<inputs, config, parseResults, report, verdict>>

NextSelectorFunctions ==
    \/ CallCalculateSpecificity
    \/ CallCalculateSelectorDepth
    \/ CallParseSelector
    \/ CallCompareSpecificity
    \/ CallFindMaxSpecificity

SpecSelectorFunctions == InitScoring /\ [][NextSelectorFunctions]_vars

\* parseCSS and parseCSSFile called on their own, beside analyze.  A
\* stylesheet is a list of at most MaxNodes nodes: a style rule, @layer
\* statements and blocks (named, anonymous, with repeated and empty names,
\* with names that differ in case), @layer inside @media and inside @layer.
MaxNodes == 2

PlainRule == SrcRule(1, <<SelPlain>>, <<Decl("color", StrRed, FALSE)>>)

LayerParams ==
    { <<>>, <<"a">>, <<"A">>, <<"a", ",", " ", "b">>, <<"b", ",", "a">>,
      <<"a", ",", ",", " ", "A", " ">> }

SheetNodes ==
    {PlainRule, AtRule("media", <<"(", "x", ")">>, <<PlainRule>>)}
    \cup {AtRule("layer", p, <<>>) : p \in LayerParams}
    \cup {AtRule("media", <<"(", "x", ")">>, <<AtRule("layer", p, <<PlainRule>>)>>) :
             p \in {<<>>, <<"b">>}}
    \cup {AtRule("layer", p, <<PlainRule, AtRule("layer", q, <<PlainRule>>)>>) :
             p \in {<<>>, <<"a">>}, q \in {<<>>, <<"a">>, <<"b">>}}

Sheets == {Sheet(nodes) : nodes \in SeqsUpTo(SheetNodes, MaxNodes)} \cup {BrokenSheet}

ParserInputs ==
    { ContentInput(ShLayer, None),
      ContentInput(BrokenSheet, Some("b.css")),
      ContentInput(EmptySheet, Some("e.css")),
      FileInput("c.css", Some(ShMixed)),
      FileInput("d.css", Some(BrokenSheet)),
      FileInput("missing.css", None) }

CallParseCSS ==
    /\ call = None
    /\ inputs = <<>>
    /\ parseResults = <<>>
    /\ report = None
    /\ \E css \in Sheets, filename \in {"input.css", "a.css"} :
           call' = Some([fn |-> "parseCSS",
                         args |-> <<css, filename>>,
                         ret |-> parseCSS(css, filename)])
    /\ UNCHANGED <<inputs, config, parseResults, report, verdict>>

\* the file holds the stylesheet disk[1], or cannot be read (disk = None)
CallParseCSSFile ==
    /\ call = None
    /\ inputs = <<>>
    /\ parseResults = <<>>
    /\ report = None
    /\ \E disk \in {None} \cup {Some(css) : css \in Sheets} :
           call' = Some([fn |-> "parseCSSFile",
                         args |-> <<"a.css", disk>>,
                         ret |-> parseCSSFile("a.css", disk # None,
                                              OrElse(disk, EmptySheet))])
    /\ UNCHANGED <<inputs, config, parseResults, report, verdict>>

NextParser == AnalyzeInput \/ GenerateReport \/ CallParseCSS \/ CallParseCSSFile

InitParser == InitWith(SeqsUpTo(ParserInputs, MaxInputs), {CfgEmpty})
SpecParser == InitParser /\ [][NextParser]_vars

\* Files whose averages meet half-way between two hundredths.
\* #x, .a, .a, .a, .a { color: red }          0.2 ids per selector
\* #x a a, .a { color: red !important }       0.5 ids per selector
\* .a { width: 1px }                          no id
MaxFiles == 4

ShFifthId ==
    Sheet(<< SrcRule(1, <<Src("#x", <<Id>>)>> \o Repeat(4, SelPlain),
                     <<Decl("color", StrRed, FALSE)>>) >>)
ShHalfId ==
    Sheet(<< SrcRule(1, << Src("#x a a", <<Id, Node("combinator", " "), Tag,
                                          Node("combinator", " "), Tag>>),
                           SelPlain >>,
                     <<Decl("color", StrRed, TRUE)>>) >>)
ShNoId == Sheet(<< SrcRule(1, <<SelPlain>>, <<Decl("width", StrPx, FALSE)>>) >>)

GlobalInputs ==
    { ContentInput(ShFifthId, Some("a.css")),
      ContentInput(ShHalfId, Some("b.css")),
      ContentInput(ShNoId, None) }

InitGlobalMetrics == InitWith(SeqsUpTo(GlobalInputs, MaxFiles), {CfgEmpty})
SpecGlobalMetrics == InitGlobalMetrics /\ [][Next]_vars

\* generateReport(parseResults, mergedConfig) called once more after analyze
\* returned, before or after checkThresholds; the result carries the
\* timestamp of the call
Clock == {"2024-01-01T00:00:00.000Z", "2024-01-01T00:00:01.000Z"}

CallGenerateReport ==
    /\ report # None
    /\ call = None
    /\ \E now \in Clock :
        call' = Some([fn |-> "generateReport",
                      args |-> <<parseResults, mergeConfig(config)>>,
                      ret |-> [timestamp |-> now]
                                  @@ generateReport(parseResults, mergeConfig(config))])
    /\ UNCHANGED <<inputs, config, parseResults, report, verdict>>

NextReport == Next \/ CallGenerateReport
SpecReport == Init /\ [][NextReport]_vars

\* calculateLayoutRiskForDeclarations called on its own, on the declaration
\* lists of at most MaxDeclarations declarations out of:
\* position: absolute | fixed | relative; top; left; right; float; width;
\* display; margin: -1px; margin-top: 1px; color: red
MaxDeclarations == 4

StrRelative == <<"r", "e", "l", "a", "t", "i", "v", "e">>
RiskDeclarations ==
    { Decl("position", StrAbsolute, FALSE), Decl("position", StrFixed, TRUE),
      Decl("position", StrRelative, FALSE), Decl("top", StrPx, FALSE),
      Decl("left", StrPx, FALSE), Decl("right", StrPx, FALSE),
      Decl("float", StrBlock, FALSE), Decl("width", StrPx, FALSE),
      Decl("display", StrBlock, FALSE), Decl("margin", StrNegPx, FALSE),
      Decl("margin-top", StrPx, FALSE), Decl("color", StrNegPx, FALSE) }

CallCalculateLayoutRisk ==
    /\ call = None
    /\ \E declarations \in SeqsUpTo(RiskDeclarations, MaxDeclarations) :
        call' = Some([fn |-> "calculateLayoutRiskForDeclarations",
                      args |-> <<declarations>>,
                      ret |-> calculateLayoutRiskForDeclarations(declarations)])
    /\ UNCHANGED <<inputs, config, parseResults, report, verdict>>

NextLayoutRisk == CallCalculateLayoutRisk
InitLayoutRisk == InitWith({<<>>}, {CfgEmpty})
SpecLayoutRisk == InitLayoutRisk /\ [][NextLayoutRisk]_vars

\* parseCSS and calculateFileMetrics called on stylesheets with rules nested
\* in style rules:
\* .a { color: red; a { width: 1px !important } }
\* .a { a { width: 1px !important } }
\* .a { color: red; a { width: 1px !important; #x { color: red } } }
\* .a { color: red; @media (x) { a { width: 1px !important } } }
\* @layer a { .a { color: red; a { width: 1px !important } } }
\* beside rules that nest nothing, with and without declarations
SelTag == Src("a", <<Tag>>)
InnerRule == SrcRule(2, <<SelTag>>, <<Decl("width", StrPx, TRUE)>>)
NestingNodes ==
    { PlainRule,
      SrcRule(1, <<SelPlain, SelTag>>, <<>>),
      SrcRule(1, <<SelTag>>, <<Decl("color", StrRed, FALSE), Decl("width", StrPx, FALSE)>>),
      AtRule("media", <<"(", "x", ")">>, <<PlainRule>>),
      NestingRule(1, <<SelPlain>>, <<Decl("color", StrRed, FALSE)>>, <<InnerRule>>),
      NestingRule(1, <<SelPlain>>, <<>>, <<InnerRule>>),
      NestingRule(1, <<SelPlain>>, <<Decl("color", StrRed, FALSE)>>,
                  << NestingRule(2, <<SelTag>>, <<Decl("width", StrPx, TRUE)>>,
                                 << SrcRule(3, <<Src("#x", <<Id>>)>>,
                                            <<Decl("color", StrRed, FALSE)>>) >>) >>),
      NestingRule(1, <<SelPlain>>, <<Decl("color", StrRed, FALSE)>>,
                  << AtRule("media", <<"(", "x", ")">>, <<InnerRule>>) >>),
      AtRule("layer", <<"a">>,
             << NestingRule(1, <<SelPlain>>, <<Decl("color", StrRed, FALSE)>>,
                            <<InnerRule>>) >>) }
NestingSheets == {Sheet(nodes) : nodes \in SeqsUpTo(NestingNodes, MaxNodes)}

\* calculateFileMetrics(parseCSS(css, filename))
CallParseAndMeasure ==
    /\ call = None
    /\ \E css \in NestingSheets, filename \in {"input.css", "a.css"} :
           call' = Some([fn |-> "calculateFileMetrics",
                         args |-> <<css, filename>>,
                         ret |-> [result |-> parseCSS(css, filename),
                                  metrics |-> calculateFileMetrics(parseCSS(css, filename))]])
    /\ UNCHANGED <<inputs, config, parseResults, report, verdict>>

NextNesting == CallParseAndMeasure
InitNesting == InitWith({<<>>}, {CfgEmpty})
SpecNesting == InitNesting /\ [][NextNesting]_vars

\* The duplication score: the stylesheets of DuplicateInputs, analysed with
\* the default configuration, with maxDuplicateDeclarations 2 and with the
\* duplicateDeclarations detector disabled.
DuplicationConfigs ==
    { CfgEmpty,
      [thresholds |-> Some([NoThresholds EXCEPT !.maxDuplicateDeclarations = Some(2)]),
       maxScore |-> None, rules |-> None],
      [thresholds |-> None, maxScore |-> None,
       rules |-> Some([NoRules EXCEPT !.duplicateDeclarations = Some(FALSE)])] }

InitDuplication == InitWith(SeqsUpTo(DuplicateInputs, MaxInputs), DuplicationConfigs)
SpecDuplication == InitDuplication /\ [][Next]_vars

\* generateSummary and generateRecommendations called once more on the
\* metrics of the report and on its issues with the MISSING_LAYERS issues
\* taken out, or with one more put in front or at the end
MissingLayersIssue(severity) ==
    Issue("MISSING_LAYERS", severity, "CSS @layer not used for cascade management",
          [Evidence("input.css") EXCEPT !.count = Some(50)])

CallSummarize ==
    /\ report # None
    /\ call = None
    /\ \E issues \in
            { SelectSeq(report[1].issues, LAMBDA i : i.id # "MISSING_LAYERS"),
              report[1].issues \o <<MissingLayersIssue("low")>>,
              <<MissingLayersIssue("medium")>> \o report[1].issues } :
        call' = Some([fn |-> "generateSummary",
                      args |-> <<report[1].globalMetrics, issues>>,
                      ret |-> [summary |-> generateSummary(report[1].globalMetrics, issues),
                               recommendations |-> generateRecommendations(issues)]])
    /\ UNCHANGED <<inputs, config, parseResults, report, verdict>>

NextSummarize == Next \/ CallSummarize
SpecSummarize == InitLayers /\ [][NextSummarize]_vars

----------------------------------------------------------------------------
(* Properties *)

\* The issue lists the state holds, each with the parse results and the
\* configuration runAllRules was given: the report's (merged
\* configuration) and the direct call's (the user's configuration).
Observed ==
    (IF report # None
     THEN {[issues |-> report[1].issues, prs |-> parseResults,
            cfg |-> mergeConfig(config)]}
     ELSE {})
    \cup
    (IF call # None /\ call[1].fn = "runAllRules"
     THEN {[issues |-> call[1].ret, prs |-> call[1].args[1],
            cfg |-> call[1].args[2]]}
     ELSE {})

WithId(issues, id) == SelectSeq(issues, LAMBDA i : i.id = id)
WithSeverity(issues, sev) == SelectSeq(issues, LAMBDA i : i.severity = sev)

\* C1: checkThresholds passes iff overallScore <= maxScore (100 when the
\* configuration gives none) and there is no critical issue; reasons holds
\* exactly one entry per violated condition, so passed iff reasons is empty.
C1_CheckThresholds ==
    verdict # None =>
        LET v == verdict[1]
            score == report[1].summary.overallScore
            critical == report[1].summary.issuesBySeverity["critical"]
            maxScore == IF config.maxScore = None THEN 100 ELSE config.maxScore[1]
            scoreReasons ==
                SelectSeq(v.reasons,
                          LAMBDA r : r.text = "Overall score exceeds maximum allowed")
            criticalReasons ==
                SelectSeq(v.reasons, LAMBDA r : r.text = "Found critical issue(s)")
        IN  /\ v.passed <=> (score <= maxScore /\ critical = 0)
            /\ v.passed <=> (v.reasons = <<>>)
            /\ Len(scoreReasons) = (IF score <= maxScore THEN 0 ELSE 1)
            /\ Len(criticalReasons) = (IF critical = 0 THEN 0 ELSE 1)
            /\ Len(v.reasons) = Len(scoreReasons) + Len(criticalReasons)

\* both conditions violated: two reasons
C1_Witness ==
    /\ verdict # None
    /\ ~verdict[1].passed
    /\ Len(verdict[1].reasons) = 2
    /\ config.maxScore # None

\* C5: generateReport of no parse results is a complete report with every
\* count 0, no issues, no top selectors, no recommendations, every category
\* score 0, overall score 0 and grade A.
C5_EmptyReport ==
    (report # None /\ parseResults = <<>>) =>
        LET r == report[1]
        IN  /\ r.globalMetrics =
                   [totalFiles |-> 0, totalRules |-> 0, totalSelectors |-> 0,
                    totalDeclarations |-> 0, maxSelectorDepth |-> 0,
                    avgSelectorDepth |-> 0,
                    maxSpecificity |-> [ids |-> 0, classes |-> 0, elements |-> 0],
                    avgSpecificity |-> [ids |-> 0, classes |-> 0, elements |-> 0],
                    totalImportantCount |-> 0, totalDuplicateDeclarations |-> 0,
                    overallLayoutRiskScore |-> 0]
            /\ r.fileMetrics = <<>>
            /\ r.issues = <<>>
            /\ r.topSelectors = <<>>
            /\ r.recommendations = <<>>
            /\ r.summary.categoryScores =
                   [specificity |-> <<0, 1>>, cascade |-> <<0, 1>>,
                    duplication |-> <<0, 1>>, layoutRisk |-> <<0, 1>>]
            /\ r.summary.overallScore = 0
            /\ r.summary.grade = "A"
            /\ r.summary.totalIssues = 0
            /\ \A sev \in Severities : r.summary.issuesBySeverity[sev] = 0

\* a report of no parse results, under a configuration that sets something
C5_Witness ==
    /\ report # None
    /\ parseResults = <<>>
    /\ config # CfgEmpty

\* the place of a severity in the order of the report
C6_Rank(sev) ==
    CASE sev = "critical" -> 0 [] sev = "high" -> 1
      [] sev = "medium" -> 2 [] sev = "low" -> 3

C6_Emitted(o) ==
    RunDeepSelectors(o.prs, o.cfg) \o RunHighSpecificity(o.prs, o.cfg)
    \o RunImportantAbuse(o.prs, o.cfg) \o RunDuplicateDeclarations(o.prs, o.cfg)
    \o RunLayoutRiskHotspot(o.prs, o.cfg) \o RunOverridePressure(o.prs, o.cfg)
    \o RunMissingLayers(o.prs, o.cfg)

\* C6: the list runAllRules returns is ordered critical, high, medium, low,
\* and issues of equal severity keep their emission order, the detectors
\* emitting in the order deepSelectors, highSpecificity, importantAbuse,
\* duplicateDeclarations, layoutRiskHotspot, overridePressure, missingLayers.
C6_SortedBySeverity ==
    \A o \in Observed :
        /\ \A i, j \in 1..Len(o.issues) :
               i < j => C6_Rank(o.issues[i].severity) <= C6_Rank(o.issues[j].severity)
        /\ \A sev \in Severities :
               WithSeverity(o.issues, sev) = WithSeverity(C6_Emitted(o), sev)

\* the emission order is not the severity order, and two detectors emitted
\* issues of one severity
C6_Witness ==
    \E o \in Observed :
        LET e == C6_Emitted(o)
        IN  /\ \E i, j \in 1..Len(e) :
                   i < j /\ C6_Rank(e[i].severity) > C6_Rank(e[j].severity)
            /\ \E i, j \in 1..Len(o.issues) :
                   /\ i < j
                   /\ o.issues[i].severity = o.issues[j].severity
                   /\ o.issues[i].id # o.issues[j].id

\* the issue id of each detector
C7_IssueId(name) ==
    CASE name = "deepSelectors" -> "DEEP_SELECTOR"
      [] name = "highSpecificity" -> "HIGH_SPECIFICITY"
      [] name = "importantAbuse" -> "IMPORTANT_ABUSE"
      [] name = "duplicateDeclarations" -> "DUPLICATE_DECLARATIONS"
      [] name = "layoutRiskHotspot" -> "LAYOUT_RISK_HOTSPOT"
      [] name = "overridePressure" -> "OVERRIDE_PRESSURE"
      [] name = "missingLayers" -> "MISSING_LAYERS"

C7_Check(name, prs, cfg) ==
    CASE name = "deepSelectors" -> checkDeepSelectors(prs, cfg)
      [] name = "highSpecificity" -> checkHighSpecificity(prs, cfg)
      [] name = "importantAbuse" -> checkImportantAbuse(prs, cfg)
      [] name = "duplicateDeclarations" -> checkDuplicateDeclarations(prs, cfg)
      [] name = "layoutRiskHotspot" -> checkLayoutRiskHotspot(prs, cfg)
      [] name = "overridePressure" -> checkOverridePressure(prs, cfg)
      [] name = "missingLayers" -> checkMissingLayers(prs, cfg)

C7_FlagIsFalse(cfg, name) == cfg.rules # None /\ cfg.rules[1][name] = Some(FALSE)

C7_SetFlag(cfg, name, flag) ==
    [cfg EXCEPT !.rules =
        Some([OrElse(cfg.rules, [n \in RuleNames |-> None]) EXCEPT ![name] = Some(flag)])]

\* C7: a detector runs unless its flag in config.rules is exactly false (no
\* rules object, or no flag, means enabled); with the flag false none of
\* its issues is returned, and the issues of the other detectors, and their
\* order, are what they are with the detector enabled.
C7_DetectorFlags ==
    \A o \in Observed : \A name \in RuleNames :
        LET mine == WithId(o.issues, C7_IssueId(name))
            others == SelectSeq(o.issues, LAMBDA i : i.id # C7_IssueId(name))
            emitted == C7_Check(name, o.prs, o.cfg)
        IN  /\ C7_FlagIsFalse(o.cfg, name) => mine = <<>>
            /\ ~C7_FlagIsFalse(o.cfg, name) =>
                   \A sev \in Severities :
                       WithSeverity(mine, sev) = WithSeverity(emitted, sev)
            /\ others = runAllRules(o.prs, C7_SetFlag(o.cfg, name, FALSE))

\* a detector is switched off, the input would have drawn issues from it,
\* and every other detector has an issue in the list
C7_Witness ==
    \E o \in Observed : \E name \in RuleNames :
        /\ C7_FlagIsFalse(o.cfg, name)
        /\ C7_Check(name, o.prs, o.cfg) # <<>>
        /\ \A other \in RuleNames \ {name} :
               WithId(o.issues, C7_IssueId(other)) # <<>>


\* the severity classes of one detector's issues, each in emission order
C8_Severities == <<"critical", "high", "medium", "low">>

\* config.thresholds.maxSelectorDepth, 4 when the configuration gives none
C8_MaxDepth(cfg) ==
    IF cfg.thresholds = None \/ cfg.thresholds[1].maxSelectorDepth = None
    THEN 4
    ELSE cfg.thresholds[1].maxSelectorDepth[1]

C8_Severity(depth, threshold) ==
    IF depth - threshold >= 4 THEN "critical"
    ELSE IF depth - threshold >= 2 THEN "high"
    ELSE "medium"

C8_Expected(o, sev) ==
    LET all == AllRuleSelectors(o.prs)
        deep == SelectSeq(all, LAMBDA e :
                    /\ e.selector.depth > C8_MaxDepth(o.cfg)
                    /\ C8_Severity(e.selector.depth, C8_MaxDepth(o.cfg)) = sev)
    IN  [i \in 1..Len(deep) |->
            [file |-> deep[i].file, selector |-> deep[i].selector.raw,
             line |-> deep[i].rule.line, depth |-> deep[i].selector.depth]]

C8_Actual(o, sev) ==
    LET mine == WithSeverity(WithId(o.issues, "DEEP_SELECTOR"), sev)
    IN  [i \in 1..Len(mine) |->
            [file |-> mine[i].evidence.file,
             selector |-> OrElse(mine[i].evidence.selector, "?"),
             line |-> OrElse(mine[i].evidence.line, -1),
             depth |-> OrElse(mine[i].evidence.depth, -1)]]

\* C8: checkDeepSelectors emits exactly one DEEP_SELECTOR issue for each
\* selector whose depth is strictly greater than maxSelectorDepth (4 when
\* the configuration gives none) and none for any other selector; its
\* severity is critical when depth - threshold >= 4, high when >= 2, medium
\* otherwise, and never low.
C8_DeepSelectors ==
    \A o \in Observed :
        ~C7_FlagIsFalse(o.cfg, "deepSelectors") =>
            /\ \A k \in 1..Len(C8_Severities) :
                   C8_Actual(o, C8_Severities[k]) = C8_Expected(o, C8_Severities[k])
            /\ WithSeverity(WithId(o.issues, "DEEP_SELECTOR"), "low") = <<>>

\* selectors at, just above and far above the threshold were analysed: one
\* issue of each severity and a selector of depth equal to the threshold
C8_Witness ==
    \E o \in Observed :
        /\ ~C7_FlagIsFalse(o.cfg, "deepSelectors")
        /\ \A sev \in {"critical", "high", "medium"} : C8_Actual(o, sev) # <<>>
        /\ \E i \in 1..Len(AllRuleSelectors(o.prs)) :
               AllRuleSelectors(o.prs)[i].selector.depth = C8_MaxDepth(o.cfg)
        /\ \E i \in 1..Len(o.issues) :
               /\ o.issues[i].id = "DEEP_SELECTOR"
               /\ o.issues[i].severity = "critical"
               /\ o.issues[i].evidence.depth = Some(C8_MaxDepth(o.cfg) + 4)

\* config.thresholds.maxSpecificityScore, 40 when the configuration gives none
C9_MaxScore(cfg) ==
    IF cfg.thresholds = None \/ cfg.thresholds[1].maxSpecificityScore = None
    THEN 40
    ELSE cfg.thresholds[1].maxSpecificityScore[1]

C9_Score(sp) == sp.ids * 100 + sp.classes * 10 + sp.elements

C9_Severity(sp, threshold) ==
    IF sp.ids >= 2 THEN "critical"
    ELSE IF sp.ids = 1 THEN "high"
    ELSE IF C9_Score(sp) > 2 * threshold THEN "high"
    ELSE IF 2 * C9_Score(sp) > 3 * threshold THEN "medium"
    ELSE "low"

C9_Expected(o, sev) ==
    LET all == AllRuleSelectors(o.prs)
        high == SelectSeq(all, LAMBDA e :
                    /\ \/ C9_Score(e.selector.specificity) > C9_MaxScore(o.cfg)
                       \/ e.selector.specificity.ids > 0
                    /\ C9_Severity(e.selector.specificity, C9_MaxScore(o.cfg)) = sev)
    IN  [i \in 1..Len(high) |->
            [file |-> high[i].file, selector |-> high[i].selector.raw,
             line |-> high[i].rule.line,
             specificity |-> Some(high[i].selector.specificity)]]

C9_Actual(o, sev) ==
    LET mine == WithSeverity(WithId(o.issues, "HIGH_SPECIFICITY"), sev)
    IN  [i \in 1..Len(mine) |->
            [file |-> mine[i].evidence.file,
             selector |-> OrElse(mine[i].evidence.selector, "?"),
             line |-> OrElse(mine[i].evidence.line, -1),
             specificity |-> mine[i].evidence.specificity]]

\* C9: checkHighSpecificity emits one HIGH_SPECIFICITY issue for a selector
\* iff its score ids*100 + classes*10 + elements exceeds maxSpecificityScore
\* (40 when the configuration gives none) or the selector contains an id;
\* severity critical with two or more ids, high with exactly one, and for
\* id-free selectors high when score > 2*threshold, medium when
\* score > 1.5*threshold, low otherwise.
C9_HighSpecificity ==
    \A o \in Observed :
        ~C7_FlagIsFalse(o.cfg, "highSpecificity") =>
            \A k \in 1..Len(C8_Severities) :
                C9_Actual(o, C8_Severities[k]) = C9_Expected(o, C8_Severities[k])

\* one run produced an issue of every severity, a high one for an id-free
\* selector and one for a single id, an issue for a selector flagged for
\* its id although its score is within the threshold, and left a selector
\* whose score equals the threshold unflagged
C9_Witness ==
    \E o \in Observed :
        LET mine == WithId(o.issues, "HIGH_SPECIFICITY")
            Has(sev, Test(_)) ==
                \E i \in 1..Len(mine) :
                    /\ mine[i].severity = sev
                    /\ Test(mine[i].evidence.specificity[1])
        IN  /\ ~C7_FlagIsFalse(o.cfg, "highSpecificity")
            /\ Has("critical", LAMBDA sp : sp.ids >= 2)
            /\ Has("high", LAMBDA sp : sp.ids = 1)
            /\ Has("high", LAMBDA sp : sp.ids = 0)
            /\ Has("medium", LAMBDA sp : 2 * C9_Score(sp) <= 4 * C9_MaxScore(o.cfg))
            /\ Has("low", LAMBDA sp : TRUE)
            /\ \E i \in 1..Len(AllRuleSelectors(o.prs)) :
                   C9_Score(AllRuleSelectors(o.prs)[i].selector.specificity)
                       = C9_MaxScore(o.cfg)

\* a selector within the score threshold is flagged because it has an id
C9_WitnessIdOnly ==
    \E o \in Observed :
        \E i \in 1..Len(o.issues) :
            /\ o.issues[i].id = "HIGH_SPECIFICITY"
            /\ C9_Score(o.issues[i].evidence.specificity[1]) <= C9_MaxScore(o.cfg)

\* config.thresholds.maxImportantPerFile, 5 when the configuration gives none
C10_MaxPerFile(cfg) ==
    IF cfg.thresholds = None \/ cfg.thresholds[1].maxImportantPerFile = None
    THEN 5
    ELSE cfg.thresholds[1].maxImportantPerFile[1]

C10_Total(pr) ==
    SumSeq([q \in 1..Len(pr.rules) |->
        Len(SelectSeq(pr.rules[q].declarations, LAMBDA d : d.important))])

C10_Severity(total, threshold) ==
    IF total >= 4 * threshold THEN "critical"
    ELSE IF 2 * total >= 5 * threshold THEN "high"
    ELSE IF 2 * total >= 3 * threshold THEN "medium"
    ELSE "low"

C10_Expected(o) ==
    LET over == SelectSeq(o.prs, LAMBDA pr : C10_Total(pr) > C10_MaxPerFile(o.cfg))
    IN  [i \in 1..Len(over) |->
            [file |-> over[i].file, count |-> Some(C10_Total(over[i])),
             severity |-> C10_Severity(C10_Total(over[i]), C10_MaxPerFile(o.cfg))]]

C10_Actual(o) ==
    LET mine == SelectSeq(WithId(o.issues, "IMPORTANT_ABUSE"),
                          LAMBDA i : i.title = "Excessive !important usage")
    IN  [i \in 1..Len(mine) |->
            [file |-> mine[i].evidence.file, count |-> mine[i].evidence.count,
             severity |-> mine[i].severity]]

C10_SameIssues(o) ==
    \A x \in Range(C10_Expected(o)) \cup Range(C10_Actual(o)) :
        Len(SelectSeq(C10_Expected(o), LAMBDA e : e = x))
            = Len(SelectSeq(C10_Actual(o), LAMBDA e : e = x))

\* C10: checkImportantAbuse emits, for each file, exactly one file-level
\* IMPORTANT_ABUSE issue, with evidence.count the file's total number of
\* !important declarations, iff that total is strictly greater than
\* maxImportantPerFile (5 when the configuration gives none); its severity
\* is by total/threshold: >= 4 critical, >= 2.5 high, >= 1.5 medium, else
\* low. A file is one parse result.
C10_ImportantAbusePerFile ==
    \A o \in Observed :
        ~C7_FlagIsFalse(o.cfg, "importantAbuse") => C10_SameIssues(o)

\* C10 for runs whose parse results all carry different file names
C10_DistinctNames(o) ==
    \A i, j \in 1..Len(o.prs) : o.prs[i].file = o.prs[j].file => i = j

C10_ImportantAbuseDistinctFiles ==
    \A o \in Observed :
        (~C7_FlagIsFalse(o.cfg, "importantAbuse") /\ C10_DistinctNames(o))
            => C10_SameIssues(o)

\* two files of different names over the threshold, one of them critical,
\* and a file-level issue of each other severity in some run
C10_WitnessDistinctFiles ==
    \E o \in Observed :
        /\ ~C7_FlagIsFalse(o.cfg, "importantAbuse")
        /\ C10_DistinctNames(o)
        /\ Len(C10_Actual(o)) = 2
        /\ \E i \in 1..2 : C10_Actual(o)[i].severity = "critical"
        /\ \E i \in 1..2 : C10_Actual(o)[i].severity \in {"low", "medium", "high"}


\* the category scores as quotients of integers with positive denominators
C2_Numerator(cs) ==
    30 * cs.specificity[1] * cs.cascade[2] * cs.duplication[2] * cs.layoutRisk[2]
    + 25 * cs.cascade[1] * cs.specificity[2] * cs.duplication[2] * cs.layoutRisk[2]
    + 20 * cs.duplication[1] * cs.specificity[2] * cs.cascade[2] * cs.layoutRisk[2]
    + 25 * cs.layoutRisk[1] * cs.specificity[2] * cs.cascade[2] * cs.duplication[2]

C2_Denominator(cs) ==
    100 * cs.specificity[2] * cs.cascade[2] * cs.duplication[2] * cs.layoutRisk[2]

\* C2: calculateOverallScore returns round(min(100, max(0, 0.30*specificity
\* + 0.25*cascade + 0.20*duplication + 0.25*layoutRisk))), halves rounded
\* up: an integer in 0..100 for every combination of category scores, and
\* exactly c when all four scores are the same integer c in 0..100.
C2_OverallScore ==
    (call # None /\ call[1].fn = "calculateOverallScore") =>
        LET cs == call[1].args[1]
            r == call[1].ret
            d == C2_Denominator(cs)
            n == C2_Numerator(cs)
            clamped == IF n < 0 THEN 0 ELSE IF n > 100 * d THEN 100 * d ELSE n
        IN  /\ r \in 0..100
            /\ (2 * r - 1) * d <= 2 * clamped
            /\ 2 * clamped < (2 * r + 1) * d
            /\ \A c \in 0..100 :
                   cs = CategoryScores(<<c, 1>>, <<c, 1>>, <<c, 1>>, <<c, 1>>)
                       => r = c

\* a category score above 100 and a weighted sum of 87.5, rounded up
C2_Witness ==
    /\ call # None
    /\ call[1].fn = "calculateOverallScore"
    /\ call[1].args[1] = CategoryScores(<<250, 1>>, <<50, 1>>, <<0, 1>>, <<0, 1>>)
    /\ call[1].ret = 88

\* equal category scores: the result is that score
C2_WitnessEqual ==
    /\ call # None
    /\ call[1].fn = "calculateOverallScore"
    /\ call[1].args[1] = CategoryScores(<<37, 1>>, <<37, 1>>, <<37, 1>>, <<37, 1>>)
    /\ call[1].ret = 37

C3_Categories == {"specificity", "cascade", "duplication", "layoutRisk"}

\* C3: for global metrics with non-negative fields and any list of issues,
\* each of the four category scores lies in 0..100, however many issues
\* there are.
C3_CategoryScores ==
    (call # None /\ call[1].fn = "generateSummary") =>
        \A k \in C3_Categories :
            LET x == call[1].ret.categoryScores[k]
            IN  /\ x[2] > 0
                /\ 0 <= x[1]
                /\ x[1] <= 100 * x[2]

\* long blocks of issues of every category: every score is at its cap
C3_Witness ==
    /\ call # None
    /\ call[1].fn = "generateSummary"
    /\ Len(call[1].args[2]) = 4 * MaxRepeat
    /\ \A k \in C3_Categories : call[1].ret.categoryScores[k] = <<100, 1>>

C4_Grade(score) ==
    IF score <= 20 THEN "A"
    ELSE IF score \in 21..40 THEN "B"
    ELSE IF score \in 41..60 THEN "C"
    ELSE IF score \in 61..80 THEN "D"
    ELSE "F"

C4_Rank(grade) ==
    CASE grade = "A" -> 0 [] grade = "B" -> 1 [] grade = "C" -> 2
      [] grade = "D" -> 3 [] grade = "F" -> 4

\* C4: in every Summary of generateSummary the grade is a function of
\* overallScore alone: A iff score <= 20, B iff 21..40, C iff 41..60,
\* D iff 61..80, F iff score > 80; no lower score has a worse grade.
C4_GradeOfScore ==
    (call # None /\ call[1].fn = "generateSummary") =>
        LET summary == call[1].ret
        IN  /\ summary.grade = C4_Grade(summary.overallScore)
            /\ summary.overallScore = calculateOverallScore(summary.categoryScores)
            /\ \A lower \in 0..summary.overallScore :
                   C4_Rank(scoreToGrade(lower)) <= C4_Rank(summary.grade)

\* a summary whose score sits on a threshold
C4_Witness ==
    /\ call # None
    /\ call[1].fn = "generateSummary"
    /\ call[1].ret.overallScore \in {20, 40, 60, 80}

\* a summary of the worst grade
C4_WitnessF ==
    /\ call # None
    /\ call[1].fn = "generateSummary"
    /\ call[1].ret.grade = "F"
    /\ call[1].ret.overallScore > 80

\* config.thresholds.maxDuplicateDeclarations, 3 when the configuration gives none
C11_MinCount(cfg) ==
    IF cfg.thresholds = None \/ cfg.thresholds[1].maxDuplicateDeclarations = None
    THEN 3
    ELSE cfg.thresholds[1].maxDuplicateDeclarations[1]

\* the declarations of all files in encounter order, each with its key
C11_Declarations(o) ==
    LET all == AllDeclarations(o.prs)
    IN  [i \in 1..Len(all) |->
            [key |-> <<all[i].decl.property, ToLowerCase(Trim(all[i].decl.value))>>,
             file |-> all[i].file,
             line |-> all[i].rule.line,
             selector |-> all[i].rule.selectors[1].raw]]

C11_Severity(count, threshold) ==
    IF count >= 5 * threshold THEN "high"
    ELSE IF count >= 3 * threshold THEN "medium"
    ELSE "low"

\* one expected issue per group of at least the threshold's size
C11_Expected(o) ==
    LET decls == C11_Declarations(o)
        size(key) == Cardinality({i \in 1..Len(decls) : decls[i].key = key})
        first(key) == decls[CHOOSE i \in 1..Len(decls) :
                          /\ decls[i].key = key
                          /\ \A j \in 1..(i - 1) : decls[j].key # key]
    IN  { [property |-> Some(key[1]), value |-> Some(key[2]),
           count |-> Some(size(key)),
           file |-> first(key).file, line |-> Some(first(key).line),
           selector |-> Some(first(key).selector),
           severity |-> C11_Severity(size(key), C11_MinCount(o.cfg))] :
          key \in {k \in {decls[i].key : i \in 1..Len(decls)} :
                      size(k) >= C11_MinCount(o.cfg)} }

C11_Actual(o) ==
    LET mine == WithId(o.issues, "DUPLICATE_DECLARATIONS")
    IN  [i \in 1..Len(mine) |->
            [property |-> mine[i].evidence.property, value |-> mine[i].evidence.value,
             count |-> mine[i].evidence.count,
             file |-> mine[i].evidence.file, line |-> mine[i].evidence.line,
             selector |-> mine[i].evidence.selector,
             severity |-> mine[i].severity]]

\* C11: checkDuplicateDeclarations emits exactly one DUPLICATE_DECLARATIONS
\* issue for each group of declarations, across all files, that share the
\* key property:lowercase(trim(value)) and whose size is at least
\* maxDuplicateDeclarations (3 when the configuration gives none), and none
\* for smaller groups; evidence.count is the group size, the evidence
\* location the group's first occurrence in encounter order; severity high
\* when count >= 5*threshold, medium when count >= 3*threshold, else low.
C11_DuplicateDeclarations ==
    \A o \in Observed :
        ~C7_FlagIsFalse(o.cfg, "duplicateDeclarations") =>
            /\ Range(C11_Actual(o)) = C11_Expected(o)
            /\ Len(C11_Actual(o)) = Cardinality(C11_Expected(o))

\* one run with a high, a medium and a low issue, a group below the
\* threshold, a group whose values differ in case and white space, and a
\* group that first occurs in a second rule
C11_Witness ==
    \E o \in Observed :
        LET actual == C11_Actual(o)
            decls == C11_Declarations(o)
        IN  /\ ~C7_FlagIsFalse(o.cfg, "duplicateDeclarations")
            /\ \A sev \in {"high", "medium", "low"} :
                   \E i \in 1..Len(actual) : actual[i].severity = sev
            /\ \E i \in 1..Len(decls) :
                   Cardinality({j \in 1..Len(decls) : decls[j].key = decls[i].key})
                       < C11_MinCount(o.cfg)
            /\ \E i \in 1..Len(actual) : actual[i].line = Some(2)
            /\ \E i, j \in 1..Len(AllDeclarations(o.prs)) :
                   /\ decls[i].key = decls[j].key
                   /\ AllDeclarations(o.prs)[i].decl.value
                          # AllDeclarations(o.prs)[j].decl.value

(* C12 *)

C12_TotalRules(o) == SumSeq([r \in 1..Len(o.prs) |-> Len(o.prs[r].rules)])

C12_TotalImportant(o) == SumSeq([r \in 1..Len(o.prs) |-> C10_Total(o.prs[r])])

C12_Due(o) ==
    /\ \A r \in 1..Len(o.prs) : ~o.prs[r].usesLayers
    /\ \/ C12_TotalRules(o) >= 50
       \/ C12_TotalImportant(o) >= 5
       \/ Cardinality({r \in 1..Len(o.prs) : Len(o.prs[r].rules) >= 20}) >= 3

\* C12: checkMissingLayers emits at most one MISSING_LAYERS issue per run,
\* and emits it exactly when no parse result uses layers and the total rule
\* count is at least 50, or the total !important count is at least 5, or at
\* least 3 files have 20 or more rules each; its severity is medium when the
\* total rule count is at least 200 or the total !important count at least 20
\* and low otherwise, and evidence.count is the total rule count.
C12_MissingLayers ==
    \A o \in Observed :
        ~C7_FlagIsFalse(o.cfg, "missingLayers") =>
            LET mine == WithId(o.issues, "MISSING_LAYERS")
            IN  /\ Len(mine) <= 1
                /\ Len(mine) = 1 <=> C12_Due(o)
                /\ \A i \in 1..Len(mine) :
                    /\ mine[i].severity =
                           (IF C12_TotalRules(o) >= 200 \/ C12_TotalImportant(o) >= 20
                            THEN "medium" ELSE "low")
                    /\ mine[i].evidence.count = Some(C12_TotalRules(o))

\* a report that carries a medium issue for exactly 20 !important
\* declarations in fewer than 200 rules
C12_Witness ==
    \E o \in Observed :
        /\ report # None
        /\ C12_TotalImportant(o) = 20
        /\ C12_TotalRules(o) < 200
        /\ \E i \in 1..Len(o.issues) :
            /\ o.issues[i].id = "MISSING_LAYERS"
            /\ o.issues[i].severity = "medium"

\* a run of exactly 50 rules with fewer than 5 !important declarations
\* carries a low issue
C12_WitnessFiftyRules ==
    \E o \in Observed :
        /\ C12_TotalRules(o) = 50
        /\ C12_TotalImportant(o) < 5
        /\ Len(WithId(o.issues, "MISSING_LAYERS")) = 1

\* a run over a layered file and 151 further rules carries no issue
C12_WitnessLayered ==
    \E o \in Observed :
        /\ C12_TotalRules(o) >= 50
        /\ \E r \in 1..Len(o.prs) : o.prs[r].usesLayers
        /\ Len(WithId(o.issues, "MISSING_LAYERS")) = 0

(* C13 *)

C13_Severity(score) ==
    IF score >= 15 THEN "high" ELSE IF score >= 10 THEN "medium" ELSE "low"

\* the rules of the run that score 5 or more, in order
C13_Hotspots(o) ==
    SelectSeq(AllRules(o.prs),
              LAMBDA e : calculateLayoutRiskForDeclarations(e.rule.declarations) >= 5)

\* C13: checkLayoutRiskHotspot emits exactly one LAYOUT_RISK_HOTSPOT issue
\* for each rule whose layout-risk score is at least 5, whatever thresholds
\* the configuration gives, and none for a rule scoring below 5; the
\* severity is high for a score of at least 15, medium for at least 10, low
\* otherwise, and never critical.
C13_LayoutRiskHotspot ==
    \A o \in Observed :
        ~C7_FlagIsFalse(o.cfg, "layoutRiskHotspot") =>
            LET mine == WithId(o.issues, "LAYOUT_RISK_HOTSPOT")
                hot == C13_Hotspots(o)
                at(file, line, sev) ==
                    Cardinality({i \in 1..Len(mine) :
                        /\ mine[i].evidence.file = file
                        /\ mine[i].evidence.line = Some(line)
                        /\ mine[i].severity = sev})
                due(file, line, sev) ==
                    Cardinality({i \in 1..Len(hot) :
                        /\ hot[i].file = file
                        /\ hot[i].rule.line = line
                        /\ C13_Severity(calculateLayoutRiskForDeclarations(
                               hot[i].rule.declarations)) = sev})
            IN  /\ Len(mine) = Len(hot)
                /\ \A i \in 1..Len(mine) : mine[i].severity # "critical"
                /\ \A i \in 1..Len(hot) : \A sev \in Severities :
                       at(hot[i].file, hot[i].rule.line, sev)
                           = due(hot[i].file, hot[i].rule.line, sev)

\* a run under thresholds of 1 whose rules score 4, 5, 14 and 15: the rule
\* scoring 4 has no issue, the others a low, a medium and a high one
C13_Witness ==
    \E o \in Observed :
        LET mine == WithId(o.issues, "LAYOUT_RISK_HOTSPOT")
            scores == {calculateLayoutRiskForDeclarations(AllRules(o.prs)[i].rule.declarations) :
                          i \in 1..Len(AllRules(o.prs))}
        IN  /\ o.cfg.thresholds # None
            /\ o.cfg.thresholds[1].maxSelectorDepth = Some(1)
            /\ {4, 5, 14, 15} \subseteq scores
            /\ Len(mine) = 3
            /\ {mine[i].severity : i \in 1..Len(mine)} = {"low", "medium", "high"}

(* C14 *)

\* the calls of detectOverridePressure: [prs, minOverrides, ret]
C14_Calls ==
    IF call # None /\ call[1].fn = "detectOverridePressure"
    THEN {[prs |-> call[1].args[1], minOverrides |-> call[1].args[2],
           ret |-> call[1].ret]}
    ELSE {}

\* the rules, as <<file index, rule index>>, that define the property
C14_DefiningRules(prs, property) ==
    {rq \in UNION {{<<r, q>> : q \in 1..Len(prs[r].rules)} : r \in 1..Len(prs)} :
        \E d \in Range(prs[rq[1]].rules[rq[2]].declarations) :
            d.property = property}

C14_Properties(prs) ==
    {all.decl.property : all \in Range(AllDeclarations(prs))}

\* C14: detectOverridePressure groups declarations by property name,
\* regardless of value, across all files and keeps exactly the properties
\* defined in at least minOverrides distinct rules; overrideCount of a kept
\* property is the number of distinct rules defining it, and one selector
\* entry is recorded per defining rule.
C14_OverridePressureDistinctRules ==
    \A c \in C14_Calls :
        /\ {c.ret[i].property : i \in 1..Len(c.ret)}
               = {p \in C14_Properties(c.prs) :
                     Cardinality(C14_DefiningRules(c.prs, p)) >= c.minOverrides}
        /\ \A i \in 1..Len(c.ret) :
            /\ c.ret[i].overrideCount
                   = Cardinality(C14_DefiningRules(c.prs, c.ret[i].property))
            /\ Len(c.ret[i].selectors)
                   = Cardinality(C14_DefiningRules(c.prs, c.ret[i].property))

\* no rule of the call declares a property twice
C14_NoRepeats(prs) ==
    \A e \in Range(AllRules(prs)) :
        \A i, j \in 1..Len(e.rule.declarations) :
            e.rule.declarations[i].property = e.rule.declarations[j].property
                => i = j

\* the statement restricted to calls in which no rule declares a property
\* twice; there a declaration and a defining rule are the same thing
C14_HoldsWithoutRepeats ==
    \A c \in C14_Calls :
        C14_NoRepeats(c.prs) =>
            /\ {c.ret[i].property : i \in 1..Len(c.ret)}
                   = {p \in C14_Properties(c.prs) :
                         Cardinality(C14_DefiningRules(c.prs, p)) >= c.minOverrides}
            /\ \A i \in 1..Len(c.ret) :
                   c.ret[i].overrideCount
                       = Cardinality(C14_DefiningRules(c.prs, c.ret[i].property))

\* what the code counts: the declarations of the property
C14_CountsDeclarations ==
    \A c \in C14_Calls :
        LET n(p) == Cardinality({i \in 1..Len(AllDeclarations(c.prs)) :
                        AllDeclarations(c.prs)[i].decl.property = p})
        IN  /\ {c.ret[i].property : i \in 1..Len(c.ret)}
                   = {p \in C14_Properties(c.prs) : n(p) >= c.minOverrides}
            /\ \A i \in 1..Len(c.ret) :
                /\ c.ret[i].overrideCount = n(c.ret[i].property)
                /\ Len(c.ret[i].selectors) = n(c.ret[i].property)

(* C15 *)

\* the calls of fn on a selector string: [selector, ret]
C15_Calls(fn) ==
    IF call # None /\ call[1].fn = fn
    THEN {[selector |-> call[1].args[1], ret |-> call[1].ret]}
    ELSE {}

\* what one node adds by itself, as <<ids, classes, elements>>
C15_Own(n) ==
    CASE n.type = "id" -> <<1, 0, 0>>
      [] n.type \in {"class", "attribute"} -> <<0, 1, 0>>
      [] n.type = "pseudo" ->
            IF n.colons = 2
               \/ n.value \in {"before", "after", "first-line", "first-letter",
                               "selection", "placeholder"}
            THEN <<0, 0, 1>>
            ELSE IF n.value \in {"not", "is", "where", "has"} THEN <<0, 0, 0>>
            ELSE <<0, 1, 0>>
      [] n.type = "tag" -> IF n.value = "*" THEN <<0, 0, 0>> ELSE <<0, 0, 1>>
      [] OTHER -> <<0, 0, 0>>

\* component k of the sum over the nodes and, through the arguments of the
\* pseudos, over every simple selector inside them
RECURSIVE C15_Sum(_, _)
C15_Sum(nodes, k) ==
    IF nodes = <<>> THEN 0
    ELSE C15_Own(nodes[1])[k]
         + SumSeq([i \in 1..Len(nodes[1].args) |-> C15_Sum(nodes[1].args[i], k)])
         + C15_Sum(Tail(nodes), k)

\* C15: calculateSpecificity counts, over the whole selector, 1 id per id
\* selector, 1 class per class selector and per attribute selector, 1
\* element per pseudo-element (two colons, or one colon before before,
\* after, first-line, first-letter, selection, placeholder), 1 class per
\* other pseudo-class except :not, :is, :where and :has, which add nothing
\* themselves while the simple selectors in their arguments are counted
\* normally, and 1 element per type selector except the universal selector.
C15_Specificity ==
    \A c \in C15_Calls("calculateSpecificity") :
        ~c.selector.throws =>
            c.ret = [ids |-> C15_Sum(c.selector.sel, 1),
                     classes |-> C15_Sum(c.selector.sel, 2),
                     elements |-> C15_Sum(c.selector.sel, 3)]

\* a:is(:not(#x a)) has specificity (1, 0, 2)
C15_Witness ==
    \E c \in C15_Calls("calculateSpecificity") :
        /\ ~c.selector.throws
        /\ c.selector.sel = <<Tag, Pseudo(1, "is", << <<Pseudo(1, "not", << <<Id, Descendant, Tag>> >>)>> >>)>>
        /\ c.ret = [ids |-> 1, classes |-> 0, elements |-> 2]

\* * and :before alone and :hover alone
C15_WitnessSimple ==
    \E c \in C15_Calls("calculateSpecificity") :
        /\ c.selector.sel = <<Universal, LegacyBefore>>
        /\ c.ret = [ids |-> 0, classes |-> 0, elements |-> 1]

(* C16 *)

C16_TopLevel(sel) == Cardinality({i \in 1..Len(sel) : sel[i].type = "combinator"})

\* C16: calculateSelectorDepth returns 1 + the number of combinators at the
\* top level of the selector; combinators inside the arguments of a
\* functional pseudo-class are not counted, so a selector with no top-level
\* combinator has depth 1 whatever its pseudo-class arguments contain.
C16_DepthTopLevelCombinators ==
    \A c \in C15_Calls("calculateSelectorDepth") :
        ~c.selector.throws => c.ret = 1 + C16_TopLevel(c.selector.sel)

\* the statement holds of the selectors whose pseudos have no arguments
C16_HoldsWithoutArguments ==
    \A c \in C15_Calls("calculateSelectorDepth") :
        (~c.selector.throws
         /\ \A i \in 1..Len(c.selector.sel) : c.selector.sel[i].args = <<>>)
            => c.ret = 1 + C16_TopLevel(c.selector.sel)

\* what the code counts: the combinators inside the arguments as well, so
\* the depth is never below the claimed one
C16_DepthAtLeastTopLevel ==
    \A c \in C15_Calls("calculateSelectorDepth") :
        ~c.selector.throws => c.ret >= 1 + C16_TopLevel(c.selector.sel)

\* :not(a > #x) is given depth 2
C16_DepthOfNot ==
    \E c \in C15_Calls("calculateSelectorDepth") :
        /\ c.selector.sel = <<Pseudo(1, "not", << <<Tag, Child, Id>> >>)>>
        /\ c.ret = 2

(* C17 *)

C17_FallbackSpecificityNonNegative ==
    \A c \in C15_Calls("calculateSpecificity") \cup
             {[selector |-> p.selector, ret |-> p.ret.specificity] :
                 p \in C15_Calls("parseSelector")} :
        c.ret.ids >= 0 /\ c.ret.classes >= 0 /\ c.ret.elements >= 0

\* the fallback depth is 0 exactly for the strings that have no character
\* other than white space, >, + and ~, the empty string among them
C17_FallbackDepthZero ==
    \A c \in C15_Calls("calculateSelectorDepth") :
        c.selector.throws =>
            /\ c.ret >= 0
            /\ c.ret = 0 <=>
                   \A i \in 1..Len(c.selector.chars) :
                       c.selector.chars[i] \in {" ", "\t", "\n", "\r", ">", "+", "~"}

\* the fallback gives " > " depth 0
C17_WitnessZero ==
    \E c \in C15_Calls("parseSelector") :
        c.selector.throws /\ c.selector.chars = <<" ", ">", " ">> /\ c.ret.depth = 0

(* C18 *)

C18_Sign(n) == IF n > 0 THEN 1 ELSE IF n < 0 THEN -1 ELSE 0

\* a against b in the lexicographic order on (ids, classes, elements)
C18_Lexicographic(a, b) ==
    IF a.ids > b.ids THEN 1
    ELSE IF a.ids < b.ids THEN -1
    ELSE IF a.classes > b.classes THEN 1
    ELSE IF a.classes < b.classes THEN -1
    ELSE IF a.elements > b.elements THEN 1
    ELSE IF a.elements < b.elements THEN -1
    ELSE 0

\* C18: compareSpecificity is antisymmetric (compare(a, b) = -compare(b, a),
\* and 0 exactly for equal triples) and lexicographic on (ids, classes,
\* elements), so more ids compare greater even at a smaller scalar score;
\* findMaxSpecificity returns an element of its input that is greatest in
\* this order, and the zero triple for an empty input.
C18_CompareSpecificity ==
    /\ call # None /\ call[1].fn = "compareSpecificity" =>
        LET a == call[1].args[1]
            b == call[1].args[2]
        IN  /\ call[1].ret = 0 - compareSpecificity(b, a)
            /\ call[1].ret = 0 <=> a = b
            /\ C18_Sign(call[1].ret) = C18_Lexicographic(a, b)
            /\ a.ids > b.ids => call[1].ret > 0
    /\ call # None /\ call[1].fn = "findMaxSpecificity" =>
        LET specificities == call[1].args[1]
        IN  IF specificities = <<>>
            THEN call[1].ret = [ids |-> 0, classes |-> 0, elements |-> 0]
            ELSE /\ \E i \in 1..Len(specificities) : specificities[i] = call[1].ret
                 /\ \A i \in 1..Len(specificities) :
                        C18_Lexicographic(call[1].ret, specificities[i]) >= 0

\* (1, 0, 0) compares greater than (0, 11, 2), whose scalar score is larger
C18_Witness ==
    /\ call # None
    /\ call[1].fn = "compareSpecificity"
    /\ call[1].args[1] = [ids |-> 1, classes |-> 0, elements |-> 0]
    /\ call[1].args[2] = [ids |-> 0, classes |-> 11, elements |-> 2]
    /\ specificityToScore(call[1].args[1]) < specificityToScore(call[1].args[2])
    /\ call[1].ret > 0

\* the maximum of a list that holds both is the one with the id
C18_WitnessMax ==
    /\ call # None
    /\ call[1].fn = "findMaxSpecificity"
    /\ Len(call[1].args[1]) = 3
    /\ \E i \in 1..3 : call[1].args[1][i] = [ids |-> 0, classes |-> 11, elements |-> 2]
    /\ call[1].ret = [ids |-> 1, classes |-> 0, elements |-> 1]

(* C19 *)

\* the calls of parseCSS: [css, ret]
C19_Calls ==
    IF call # None /\ call[1].fn = "parseCSS" /\ ~call[1].args[1].throws
    THEN {[css |-> call[1].args[1], ret |-> call[1].ret]}
    ELSE {}

\* the params of every @layer at-rule, in source order, at any depth
RECURSIVE C19_LayerParams(_)
C19_LayerParams(nodes) ==
    IF nodes = <<>> THEN <<>>
    ELSE (IF nodes[1].kind = "atrule" /\ nodes[1].name = "layer"
          THEN <<nodes[1].params>> ELSE <<>>)
         \o C19_LayerParams(nodes[1].nodes)
         \o C19_LayerParams(Tail(nodes))

\* the name that starts at position i of params, if one does: the
\* characters from i to the next comma or the end, with i at the start or
\* after a comma, white space around it dropped
C19_NameAt(params, i) ==
    LET ends == {j \in i..(Len(params) + 1) : j = Len(params) + 1 \/ params[j] = ","}
        stop == CHOOSE j \in ends : \A k \in ends : j <= k
    IN  IF i = 1 \/ params[i - 1] = ","
        THEN Trim(SubSeq(params, i, stop - 1))
        ELSE <<>>

\* where names occur: <<at-rule, position>> pairs, and the name there
C19_Occurrences(all) ==
    {ki \in UNION {{<<k, i>> : i \in 1..Len(all[k])} : k \in 1..Len(all)} :
        C19_NameAt(all[ki[1]], ki[2]) # <<>>}

C19_Before(a, b) == a[1] < b[1] \/ (a[1] = b[1] /\ a[2] < b[2])

\* C19: the layers list of parseCSS holds each layer name that occurs in an
\* @layer statement (a comma-separated list) or @layer block exactly once,
\* in first-seen order, names compared case-sensitively; usesLayers is true
\* exactly when an @layer at-rule, named or anonymous, occurs at any
\* nesting depth; hence a non-empty layers list implies usesLayers.
C19_Layers ==
    \A c \in C19_Calls :
        LET all == C19_LayerParams(c.css.nodes)
            occ == C19_Occurrences(all)
            name(ki) == C19_NameAt(all[ki[1]], ki[2])
            first(n) == CHOOSE ki \in occ :
                            /\ name(ki) = n
                            /\ \A other \in occ :
                                   name(other) = n => ~C19_Before(other, ki)
            layers == c.ret.layers
        IN  /\ Range(layers) = {name(ki) : ki \in occ}
            /\ \A i, j \in 1..Len(layers) : layers[i] = layers[j] => i = j
            /\ \A i, j \in 1..Len(layers) :
                   i < j => C19_Before(first(layers[i]), first(layers[j]))
            /\ c.ret.usesLayers <=> all # <<>>
            /\ layers # <<>> => c.ret.usesLayers

\* @layer a,, A ; @layer b,a: the names a, A and b, each once, in this order
C19_Witness ==
    \E c \in C19_Calls :
        /\ c.css.nodes = << AtRule("layer", <<"a", ",", ",", " ", "A", " ">>, <<>>),
                            AtRule("layer", <<"b", ",", "a">>, <<>>) >>
        /\ c.ret.layers = << <<"a">>, <<"A">>, <<"b">> >>
        /\ c.ret.usesLayers

\* an anonymous @layer block inside @media: no layer name, usesLayers true
C19_WitnessAnonymous ==
    \E c \in C19_Calls :
        /\ c.css.nodes = << AtRule("media", <<"(", "x", ")">>,
                                   <<AtRule("layer", <<>>, <<PlainRule>>)>>) >>
        /\ c.ret.layers = <<>>
        /\ c.ret.usesLayers

(* C20 *)

\* a parse result of a failure: no rule, one error, no layer
C20_Failure(pr) ==
    /\ pr.rules = <<>>
    /\ Len(pr.errors) = 1
    /\ pr.layers = <<>>
    /\ pr.usesLayers = FALSE

\* the input is a file that cannot be read or parsed, or content that
\* cannot be parsed
C20_Fails(input) ==
    \/ /\ input.type = "file"
       /\ input.path # ""
       /\ (input.disk = None \/ input.disk[1].throws)
    \/ /\ input.type = "content"
       /\ input.content # None
       /\ ~input.content[1].empty
       /\ input.content[1].throws

C20_ZeroMetrics(fm) ==
    /\ fm.totalRules = 0
    /\ fm.totalSelectors = 0
    /\ fm.totalDeclarations = 0
    /\ fm.maxSelectorDepth = 0
    /\ fm.avgSelectorDepth = 0
    /\ fm.maxSpecificity = [ids |-> 0, classes |-> 0, elements |-> 0]
    /\ fm.avgSpecificity = [ids |-> 0, classes |-> 0, elements |-> 0]
    /\ fm.importantCount = 0
    /\ fm.duplicateDeclarationCount = 0
    /\ fm.layoutRiskScore = 0

\* one step: a call of parseCSS or parseCSSFile returns, analyze visits an
\* input, or analyze returns its report
C20_Step ==
    /\ (call' # None /\ call'[1].fn = "parseCSS") =>
           /\ call'[1].args[1].throws => C20_Failure(call'[1].ret)
           /\ call'[1].ret.errors # <<>> => call'[1].ret.rules = <<>>
    /\ (call' # None /\ call'[1].fn = "parseCSSFile") =>
           /\ (call'[1].args[2] = None \/ call'[1].args[2][1].throws)
                  => C20_Failure(call'[1].ret)
           /\ call'[1].ret.errors # <<>> => call'[1].ret.rules = <<>>
    /\ \A r \in 1..Len(parseResults') :
           parseResults'[r].errors # <<>> => parseResults'[r].rules = <<>>
    /\ (inputs # <<>> /\ C20_Fails(Head(inputs))) =>
           /\ Len(parseResults') = Len(parseResults) + 1
           /\ SubSeq(parseResults', 1, Len(parseResults)) = parseResults
           /\ C20_Failure(parseResults'[Len(parseResults')])
           /\ inputs' = Tail(inputs)
    /\ (report = None /\ report' # None) =>
           /\ report'[1].globalMetrics.totalFiles = Len(parseResults)
           /\ Len(report'[1].fileMetrics) = Len(parseResults)
           /\ \A r \in 1..Len(parseResults) :
                  C20_Failure(parseResults[r]) =>
                      /\ report'[1].fileMetrics[r].file = parseResults[r].file
                      /\ C20_ZeroMetrics(report'[1].fileMetrics[r])

\* C20: parsing never raises: when the CSS parser throws or the file cannot
\* be read, parseCSS and parseCSSFile return a ParseResult with no rules,
\* exactly one error string, no layers and usesLayers false, and in every
\* ParseResult a non-empty errors list implies an empty rules list; in
\* analyze a failing input does not stop the remaining inputs from being
\* parsed, and the failed file is carried through the pipeline as a file
\* with zero rules, counted in totalFiles, with a FileMetrics entry whose
\* counts are all 0.
C20_ParsingNeverRaises == [][C20_Step]_vars

\* a report over a file that could not be read and, after it, a stylesheet
\* with rules: two files, the first with all-zero metrics
C20_Witness ==
    /\ report # None
    /\ Len(parseResults) = 2
    /\ parseResults[1].file = "missing.css"
    /\ C20_Failure(parseResults[1])
    /\ parseResults[2].rules # <<>>
    /\ report[1].globalMetrics.totalFiles = 2
    /\ report[1].globalMetrics.totalRules > 0
    /\ C20_ZeroMetrics(report[1].fileMetrics[1])

\* parseCSS of a stylesheet the CSS parser throws on
C20_WitnessThrows ==
    /\ call # None
    /\ call[1].fn = "parseCSS"
    /\ call[1].args[1].throws
    /\ C20_Failure(call[1].ret)

(* C21 *)

C21_DefaultThreshold(name) ==
    CASE name = "maxSelectorDepth" -> 4
      [] name = "maxSpecificityScore" -> 40
      [] name = "maxImportantPerFile" -> 5
      [] name = "maxDuplicateDeclarations" -> 3

\* the user's value of a key of thresholds or rules, None when not given
C21_Given(part, name) == IF part = None THEN None ELSE part[1][name]

\* the merged fields other than the rule toggles
C21_MergedValues(merged) ==
    /\ merged.maxScore = Some(OrElse(config.maxScore, 100))
    /\ merged.thresholds # None
    /\ \A name \in ThresholdNames :
           merged.thresholds[1][name]
               = Some(OrElse(C21_Given(config.thresholds, name),
                             C21_DefaultThreshold(name)))

C21_MergedToggles(merged, names) ==
    /\ merged.rules # None
    /\ \A name \in names :
           merged.rules[1][name]
               = Some(OrElse(C21_Given(config.rules, name), TRUE))

\* C21: mergeConfig returns a configuration in which no field is undefined
\* for any user configuration: maxScore is the user's value or 100,
\* thresholds and rules are merged key by key over the defaults 4, 40, 5
\* and 3, and each of the seven rule toggles is true unless the user set it.
C21_MergeConfigComplete ==
    report # None =>
        /\ C21_MergedValues(mergeConfig(config))
        /\ C21_MergedToggles(mergeConfig(config), RuleNames)

\* the statement holds of every field but the toggle missingLayers, which
\* is undefined in the merged configuration unless the user set it
C21_HoldsButMissingLayers ==
    report # None =>
        /\ C21_MergedValues(mergeConfig(config))
        /\ C21_MergedToggles(mergeConfig(config), RuleNames \ {"missingLayers"})
        /\ mergeConfig(config).rules[1]["missingLayers"]
               = C21_Given(config.rules, "missingLayers")

----------------------------------------------------------------------------
(* C22: calculateGlobalMetrics *)

C22_Permutations(n) ==
    {p \in [1..n -> 1..n] : \A i, j \in 1..n : p[i] = p[j] => i = j}
C22_Permuted(s, p) == [i \in 1..Len(s) |-> s[p[i]]]
C22_Field(files, name) == [i \in 1..Len(files) |-> files[i][name]]

\* C22: the global metrics of a report are the same for every permutation
\* of its files: the totals, the maxima and the averages avgSelectorDepth
\* and avgSpecificity (means of the per-file averages, every file weighing
\* one) do not depend on the order of the input files.
C22_GlobalMetricsOrderIndependent ==
    report # None =>
        \A p \in C22_Permutations(Len(report[1].fileMetrics)) :
            calculateGlobalMetrics(C22_Permuted(report[1].fileMetrics, p))
                = report[1].globalMetrics

\* what does hold in every order: the totals are the sums of the per-file
\* counts, the maxima the maxima of the per-file maxima, and each average
\* is within one hundredth of the exact mean of the per-file averages
C22_Near(hundredths, values) ==
    LET n == Len(values)
    IN  /\ (hundredths - 1) * n <= SumSeq(values)
        /\ SumSeq(values) <= (hundredths + 1) * n
C22_HoldsUpToRounding ==
    report # None /\ report[1].fileMetrics # <<>> =>
        LET files == report[1].fileMetrics
            g == report[1].globalMetrics
            Average(name) == [i \in 1..Len(files) |-> files[i].avgSpecificity[name]]
        IN  /\ g.totalFiles = Len(files)
            /\ g.totalRules = SumSeq(C22_Field(files, "totalRules"))
            /\ g.totalSelectors = SumSeq(C22_Field(files, "totalSelectors"))
            /\ g.totalDeclarations = SumSeq(C22_Field(files, "totalDeclarations"))
            /\ g.totalImportantCount = SumSeq(C22_Field(files, "importantCount"))
            /\ g.overallLayoutRiskScore = SumSeq(C22_Field(files, "layoutRiskScore"))
            /\ g.maxSelectorDepth = MaxSeq(C22_Field(files, "maxSelectorDepth"))
            /\ \A i \in 1..Len(files) :
                   compareSpecificity(files[i].maxSpecificity, g.maxSpecificity) <= 0
            /\ \E i \in 1..Len(files) : files[i].maxSpecificity = g.maxSpecificity
            /\ C22_Near(g.avgSelectorDepth, C22_Field(files, "avgSelectorDepth"))
            /\ \A name \in {"ids", "classes", "elements"} :
                   C22_Near(g.avgSpecificity[name], Average(name))
            /\ \A p \in C22_Permutations(Len(files)) :
                   LET h == calculateGlobalMetrics(C22_Permuted(files, p))
                   IN  /\ [h EXCEPT !.avgSelectorDepth = 0,
                                    !.avgSpecificity = ZeroSpecificity]
                            = [g EXCEPT !.avgSelectorDepth = 0,
                                        !.avgSpecificity = ZeroSpecificity]
                       /\ h.avgSelectorDepth - g.avgSelectorDepth \in {-1, 0, 1}

----------------------------------------------------------------------------
(* C23: generateRecommendations *)

C23_Categories == {"Specificity", "Cascade", "Duplication", "Layout"}
C23_Related(category) ==
    CASE category = "Specificity" -> {"HIGH_SPECIFICITY", "DEEP_SELECTOR"}
      [] category = "Cascade" -> {"IMPORTANT_ABUSE", "OVERRIDE_PRESSURE"}
      [] category = "Duplication" -> {"DUPLICATE_DECLARATIONS"}
      [] category = "Layout" -> {"LAYOUT_RISK_HOTSPOT"}
C23_Present(issues) == {issues[i].id : i \in 1..Len(issues)}
C23_Entries(recommendations, category) ==
    {i \in 1..Len(recommendations) : recommendations[i].category = category}

\* C23: the recommendations of a report hold exactly one entry for each
\* category that has at least one related issue and none for a category
\* without a related issue, so no two recommendations carry the same
\* category.
C23_OneRecommendationPerCategory ==
    report # None =>
        \A category \in C23_Categories :
            Cardinality(C23_Entries(report[1].recommendations, category))
                = IF C23_Related(category) \cap C23_Present(report[1].issues) # {}
                  THEN 1 ELSE 0

\* what does hold: every recommendation is of one of the four categories, a
\* category has an entry exactly when it has a related issue, and Cascade
\* has one entry for each of its two issue ids that is present
C23_HoldsPerIssueId ==
    report # None =>
        LET recs == report[1].recommendations
            present == C23_Present(report[1].issues)
        IN  /\ \A i \in 1..Len(recs) : recs[i].category \in C23_Categories
            /\ \A category \in C23_Categories :
                   Cardinality(C23_Entries(recs, category))
                       = IF category = "Cascade"
                         THEN Cardinality(C23_Related(category) \cap present)
                         ELSE IF C23_Related(category) \cap present # {} THEN 1
                         ELSE 0

----------------------------------------------------------------------------
(* C24: generateReport is deterministic and stateless *)

C24_Calls(fn) == call # None /\ call[1].fn = fn
C24_WithoutTimestamp(rep) == [f \in DOMAIN rep \ {"timestamp"} |-> rep[f]]

\* a call of generateReport after analyze returns the report analyze
\* returned, the timestamp aside; a step that produces a report changes
\* neither parseResults nor the configuration
C24_Step ==
    /\ (call = None /\ call' # None /\ call'[1].fn = "generateReport") =>
           /\ C24_WithoutTimestamp(call'[1].ret) = report[1]
           /\ call'[1].args = <<parseResults', mergeConfig(config')>>
    /\ (report' # report \/ call' # call) =>
           parseResults' = parseResults /\ config' = config

----------------------------------------------------------------------------
(* C25: calculateLayoutRiskForDeclarations *)

C25_Calls == call # None /\ call[1].fn = "calculateLayoutRiskForDeclarations"
C25_Count(declarations, Test(_)) ==
    Cardinality({i \in 1..Len(declarations) : Test(declarations[i])})
\* the first pass: 1 for every declaration of a layout property, 2 more for
\* position: absolute or fixed, 1 more for a margin with '-' in its value
C25_Additive(declarations) ==
    C25_Count(declarations, LAMBDA d : d.property \in LAYOUT_PROPERTIES)
    + 2 * C25_Count(declarations,
                    LAMBDA d : d.property = "position"
                               /\ d.value \in {StrAbsolute, StrFixed})
    + C25_Count(declarations,
                LAMBDA d : d.property \in {"margin", "margin-top", "margin-right",
                                           "margin-bottom", "margin-left"}
                           /\ \E i \in 1..Len(d.value) : d.value[i] = "-")
\* the second pass: the total after the first k combinations, rounded to
\* the nearest integer (halves upwards) after every combination applied
C25_Compounded(declarations) ==
    LET present == {declarations[i].property : i \in 1..Len(declarations)}
        total[k \in 0..Len(RISKY_COMBINATIONS)] ==
            IF k = 0 THEN C25_Additive(declarations)
            ELSE IF RISKY_COMBINATIONS[k].properties \subseteq present
            THEN (2 * total[k - 1] * RISKY_COMBINATIONS[k].riskMultiplier + 10) \div 20
            ELSE total[k - 1]
    IN  total[Len(RISKY_COMBINATIONS)]

\* C25: calculateLayoutRiskForDeclarations adds 1 per declaration of a
\* layout property, 2 more for position absolute or fixed, 1 more for a
\* margin property with '-' in its value and 0 for any other property, and
\* then, for each entry of RISKY_COMBINATIONS in list order whose properties
\* are all present, replaces the total by round(total * multiplier), the
\* replacements compounding with a rounding after each.
C25_LayoutRiskTwoPasses ==
    C25_Calls => call[1].ret = C25_Compounded(call[1].args[1])

\* position: absolute; float; width; display: 6 after the first pass, then
\* round(6 * 1.3) = 8 and round(8 * 1.2) = 10, where one rounding of
\* 6 * 1.3 * 1.2 = 9.36 would give 9
C25_Witness ==
    /\ C25_Calls
    /\ {call[1].args[1][i].property : i \in 1..Len(call[1].args[1])}
           = {"position", "float", "width", "display"}
    /\ C25_Additive(call[1].args[1]) = 6
    /\ call[1].ret = 10

\* a negative margin next to a declaration that is no layout property
C25_WitnessMargin ==
    /\ C25_Calls
    /\ call[1].args[1] = <<Decl("margin", StrNegPx, FALSE), Decl("color", StrNegPx, FALSE)>>
    /\ call[1].ret = 2

----------------------------------------------------------------------------
(* C26: the layer of a parsed rule *)

C26_Calls == call # None /\ call[1].fn = "parseCSS" /\ ~call[1].args[1].throws
\* the ancestor chains (parent first) of the style rules of a stylesheet, in
\* source order
RECURSIVE C26_Chains(_, _)
C26_Chains(nodes, ancestors) ==
    Flatten([i \in 1..Len(nodes) |->
        (IF nodes[i].kind = "rule" THEN <<ancestors>> ELSE <<>>)
            \o C26_Chains(nodes[i].nodes, <<nodes[i]>> \o ancestors)])
C26_LayerBlocks(ancestors) ==
    SelectSeq(ancestors, LAMBDA a : a.kind = "atrule" /\ a.name = "layer")
C26_NameOf(block) == IF Trim(block.params) = <<>> THEN None ELSE Some(Trim(block.params))

\* C26: the layer of every parsed rule is the name of the nearest enclosing
\* @layer block on the rule's ancestor chain, other at-rules in between
\* being skipped; a rule with no enclosing @layer block has no layer, and
\* the layer is never the empty string.
C26_LayerOfNearestBlock ==
    C26_Calls =>
        LET chains == C26_Chains(call[1].args[1].nodes, <<>>)
            rules == call[1].ret.rules
        IN  /\ Len(rules) = Len(chains)
            /\ \A i \in 1..Len(rules) :
                   /\ rules[i].layer # Some(<<>>)
                   /\ rules[i].layer =
                          IF C26_LayerBlocks(chains[i]) = <<>> THEN None
                          ELSE C26_NameOf(C26_LayerBlocks(chains[i])[1])

\* what does hold: the layer is the name of the nearest enclosing @layer
\* block that has a name, anonymous blocks being skipped like other at-rules
C26_HoldsForNamedBlocks ==
    C26_Calls =>
        LET chains == C26_Chains(call[1].args[1].nodes, <<>>)
            rules == call[1].ret.rules
            Named(ancestors) ==
                SelectSeq(C26_LayerBlocks(ancestors), LAMBDA a : a.params # <<>>)
        IN  /\ Len(rules) = Len(chains)
            /\ \A i \in 1..Len(rules) :
                   /\ rules[i].layer # Some(<<>>)
                   /\ rules[i].layer =
                          IF Named(chains[i]) = <<>> THEN None
                          ELSE Some(Trim(Named(chains[i])[1].params))

----------------------------------------------------------------------------
(* C27: the per-file !important threshold, one parse result at a time *)

\* the file-level IMPORTANT_ABUSE issues
C27_FileIssues(o) ==
    SelectSeq(WithId(o.issues, "IMPORTANT_ABUSE"),
              LAMBDA i : i.title = "Excessive !important usage")
C27_Over(o) ==
    {r \in 1..Len(o.prs) : C10_Total(o.prs[r]) > C10_MaxPerFile(o.cfg)}

\* C27: the per-file threshold is evaluated for each parse result on its
\* own: there is one file-level IMPORTANT_ABUSE issue for each parse result
\* whose own number of !important declarations exceeds maxImportantPerFile
\* and no other, and the count of an issue is the count of one parse result,
\* never a sum over several, also when parse results share a file name.
C27_ThresholdPerParseResult ==
    \A o \in Observed :
        ~C7_FlagIsFalse(o.cfg, "importantAbuse") =>
            /\ Len(C27_FileIssues(o)) = Cardinality(C27_Over(o))
            /\ \A i \in 1..Len(C27_FileIssues(o)) :
                   \E r \in C27_Over(o) :
                       /\ o.prs[r].file = C27_FileIssues(o)[i].evidence.file
                       /\ C27_FileIssues(o)[i].evidence.count = Some(C10_Total(o.prs[r]))

\* what does hold: the threshold is evaluated for each file name, on the sum
\* of the counts of the parse results that carry the name
C27_HoldsPerFileName ==
    \A o \in Observed :
        ~C7_FlagIsFalse(o.cfg, "importantAbuse") =>
            LET names == {o.prs[r].file : r \in 1..Len(o.prs)}
                Sum(name) ==
                    SumSeq([r \in 1..Len(o.prs) |->
                        IF o.prs[r].file = name THEN C10_Total(o.prs[r]) ELSE 0])
                over == {name \in names : Sum(name) > C10_MaxPerFile(o.cfg)}
            IN  /\ Len(C27_FileIssues(o)) = Cardinality(over)
                /\ \A i \in 1..Len(C27_FileIssues(o)) :
                       /\ C27_FileIssues(o)[i].evidence.file \in over
                       /\ C27_FileIssues(o)[i].evidence.count
                              = Some(Sum(C27_FileIssues(o)[i].evidence.file))

----------------------------------------------------------------------------
(* C28: each declaration belongs to one parsed rule *)

C28_Calls == call # None /\ call[1].fn = "calculateFileMetrics"
\* the style rules of a stylesheet in source order, at any depth
RECURSIVE C28_StyleRules(_)
C28_StyleRules(nodes) ==
    Flatten([i \in 1..Len(nodes) |->
        (IF nodes[i].kind = "rule" THEN <<nodes[i]>> ELSE <<>>)
            \o C28_StyleRules(nodes[i].nodes)])
\* the number of declarations inside style rules
C28_Declarations(css) ==
    SumSeq([i \in 1..Len(C28_StyleRules(css.nodes)) |->
               Len(C28_StyleRules(css.nodes)[i].decls)])

\* C28: parseCSS lists every declaration under exactly one parsed rule, the
\* style rule that directly contains it, in source order: a declaration of
\* a rule nested in another style rule is listed under the nested rule only,
\* so the sum of declarations.length over the rules of the result, and
\* totalDeclarations of the file metrics, is the number of declarations
\* inside style rules in the source.
C28_DeclarationsListedOnce ==
    C28_Calls =>
        LET source == C28_StyleRules(call[1].args[1].nodes)
            rules == call[1].ret.result.rules
        IN  /\ Len(rules) = Len(source)
            /\ \A i \in 1..Len(rules) : rules[i].declarations = source[i].decls
            /\ SumSeq([i \in 1..Len(rules) |-> Len(rules[i].declarations)])
                   = C28_Declarations(call[1].args[1])
            /\ call[1].ret.metrics.totalDeclarations = C28_Declarations(call[1].args[1])

\* what does hold: a parsed rule lists its own declarations followed by
\* those of every rule nested in it, at any depth, and totalDeclarations is
\* the sum of the lengths of those lists; the claim holds for stylesheets
\* in which no style rule with declarations is nested in a style rule
RECURSIVE C28_Inside(_)
C28_Inside(node) ==
    (IF node.kind = "rule" THEN node.decls ELSE <<>>)
        \o Flatten([i \in 1..Len(node.nodes) |-> C28_Inside(node.nodes[i])])
C28_HoldsWithDescendants ==
    C28_Calls =>
        LET source == C28_StyleRules(call[1].args[1].nodes)
            rules == call[1].ret.result.rules
        IN  /\ Len(rules) = Len(source)
            /\ \A i \in 1..Len(rules) : rules[i].declarations = C28_Inside(source[i])
            /\ call[1].ret.metrics.totalDeclarations
                   = SumSeq([i \in 1..Len(rules) |-> Len(rules[i].declarations)])
            /\ (\A i \in 1..Len(source) : C28_Inside(source[i]) = source[i].decls)
                   => call[1].ret.metrics.totalDeclarations
                          = C28_Declarations(call[1].args[1])

----------------------------------------------------------------------------
(* C29: the duplication score comes from the issues alone *)

C29_DuplicateIssues(issues) ==
    SelectSeq(issues, LAMBDA i : i.id = "DUPLICATE_DECLARATIONS")
\* min(100, sum over the issues of min(10, evidence.count / 2)), doubled to
\* stay in integers
C29_TwicePenalties(issues) ==
    Min2(200, SumSeq([i \in 1..Len(C29_DuplicateIssues(issues)) |->
                         Min2(20, C29_DuplicateIssues(issues)[i].evidence.count[1])]))

\* C29: in every report each fileMetrics[i].duplicateDeclarationCount and
\* globalMetrics.totalDuplicateDeclarations are 0, so that the duplication
\* score is min(100, sum over the DUPLICATE_DECLARATIONS issues of
\* min(10, evidence.count / 2)); it is 0 when the duplicateDeclarations
\* detector is disabled or finds no group.
C29_DuplicationScoreFromIssues ==
    report # None =>
        LET r == report[1]
        IN  /\ \A i \in 1..Len(r.fileMetrics) :
                   r.fileMetrics[i].duplicateDeclarationCount = 0
            /\ r.globalMetrics.totalDuplicateDeclarations = 0
            /\ \A i \in 1..Len(C29_DuplicateIssues(r.issues)) :
                   C29_DuplicateIssues(r.issues)[i].evidence.count # None
            /\ r.summary.categoryScores.duplication
                   = Rat(C29_TwicePenalties(r.issues), 2)
            /\ (C7_FlagIsFalse(mergeConfig(config), "duplicateDeclarations")
                    \/ C29_DuplicateIssues(r.issues) = <<>>)
                   => r.summary.categoryScores.duplication = RInt(0)

\* a report with declarations, of which some are repeated more than 20
\* times and some an odd number of times: the penalty of one issue is capped
\* at 10, another is a half, and the metric counts stay 0
C29_Witness ==
    /\ report # None
    /\ report[1].globalMetrics.totalDeclarations > 20
    /\ report[1].globalMetrics.totalDuplicateDeclarations = 0
    /\ \E i \in 1..Len(report[1].issues) :
           /\ report[1].issues[i].id = "DUPLICATE_DECLARATIONS"
           /\ report[1].issues[i].evidence.count[1] > 20
    /\ \E i \in 1..Len(report[1].issues) :
           /\ report[1].issues[i].id = "DUPLICATE_DECLARATIONS"
           /\ report[1].issues[i].evidence.count[1] % 2 = 1
    /\ RLt(RInt(10), report[1].summary.categoryScores.duplication)

\* the detector disabled on a stylesheet with repeated declarations
C29_WitnessDisabled ==
    /\ report # None
    /\ C7_FlagIsFalse(mergeConfig(config), "duplicateDeclarations")
    /\ report[1].globalMetrics.totalDeclarations > 20
    /\ report[1].summary.categoryScores.duplication = RInt(0)

----------------------------------------------------------------------------
(* C30: MISSING_LAYERS issues belong to no category *)

C30_Calls == call # None /\ call[1].fn = "generateSummary" /\ report # None
C30_MissingLayers(issues) == SelectSeq(issues, LAMBDA i : i.id = "MISSING_LAYERS")
C30_Others(issues) == SelectSeq(issues, LAMBDA i : i.id # "MISSING_LAYERS")

\* C30: of two issue lists that differ only in their MISSING_LAYERS issues,
\* summarised with the same metrics, the four category scores, the overall
\* score, the grade and the recommendations are the same; only totalIssues
\* and issuesBySeverity differ, by the MISSING_LAYERS issues.
C30_MissingLayersOutsideCategories ==
    C30_Calls =>
        LET mine == call[1].ret.summary
            theirs == report[1].summary
            issues == call[1].args[2]
        IN  (call[1].args[1] = report[1].globalMetrics
             /\ C30_Others(issues) = C30_Others(report[1].issues)) =>
                /\ mine.categoryScores = theirs.categoryScores
                /\ mine.overallScore = theirs.overallScore
                /\ mine.grade = theirs.grade
                /\ call[1].ret.recommendations = report[1].recommendations
                /\ DOMAIN mine = DOMAIN theirs
                /\ mine.totalIssues - theirs.totalIssues
                       = Len(C30_MissingLayers(issues))
                             - Len(C30_MissingLayers(report[1].issues))
                /\ \A sev \in Severities :
                       mine.issuesBySeverity[sev] - theirs.issuesBySeverity[sev]
                           = Len(SelectSeq(C30_MissingLayers(issues),
                                           LAMBDA i : i.severity = sev))
                             - Len(SelectSeq(C30_MissingLayers(report[1].issues),
                                             LAMBDA i : i.severity = sev))

\* the MISSING_LAYERS issue of a report with other issues, scores above 0
\* and recommendations is taken out
C30_Witness ==
    /\ C30_Calls
    /\ C30_MissingLayers(report[1].issues) # <<>>
    /\ C30_MissingLayers(call[1].args[2]) = <<>>
    /\ C30_Others(report[1].issues) # <<>>
    /\ report[1].recommendations # <<>>
    /\ report[1].summary.overallScore > 0
    /\ call[1].ret.summary.totalIssues = report[1].summary.totalIssues - 1

\* a MISSING_LAYERS issue is added to a report that has none
C30_WitnessAdded ==
    /\ C30_Calls
    /\ C30_MissingLayers(report[1].issues) = <<>>
    /\ Len(C30_MissingLayers(call[1].args[2])) = 1
    /\ report[1].issues # <<>>
    /\ call[1].ret.summary.issuesBySeverity["medium"]
           = report[1].summary.issuesBySeverity["medium"] + 1

====
